---------------------------- MODULE Spec2Model ----------------------------
(***************************************************************************)
(* Model of the task orchestrator of dados (src/src/context_manager.py):   *)
(* ContextManager.execute_tasks, its dependency wait, the worker pool, the *)
(* GUI lock and the per-task worker _execute_single_task, driven by the    *)
(* task batches TaskParser.parse builds (src/src/task_parser.py).          *)
(***************************************************************************)
EXTENDS Integers, Sequences, FiniteSets, TLC

\* ------------------------------------------------------------------ bounds
\* Longest task batch handed to execute_tasks.
MaxTasks == 3
\* Number of execute_tasks calls made on the one ContextManager.
MaxCalls == 2
\* Number of future.result waits that end in a timeout, over all calls.
MaxTimeouts == 2
\* Longest instruction handed to TaskParser.parse, in words.
MaxWords == 6
\* Longest command batch handed to ShellExecutor.run.
MaxCommands == 2
\* Longest target list the vision service answers with.
MaxTargets == 2
\* Number of processes that run main.py's main at the same time.
MaxInstances == 2

\* ------------------------------------------------------ program constants
\* ContextManager.__init__(max_parallel_tasks = 3): the default pool size.
max_parallel_tasks == 3
\* GUIExecutor.execute(verify_radius = 32, max_retries = 3): the defaults.
verify_radius == 32
max_retries == 3
\* GUIExecutor.execute, line 92: the confidence 0.5 below which a candidate
\* is skipped, in tenths (a confidence c is written 10 * c).
min_confidence == 5

\* TaskStatus
PENDING == "pending"
RUNNING == "running"
COMPLETED == "completed"
FAILED == "failed"
TaskStatus == {PENDING, RUNNING, COMPLETED, FAILED}

\* TaskType
PARALLEL == "parallel"
SEQUENTIAL == "sequential"
TaskType == {PARALLEL, SEQUENTIAL}

\* Optional[...] = None
None == "None"
\* str(e) of the concurrent.futures.TimeoutError raised by future.result:
\* the exception carries no message.
TimeoutText == ""
\* str(e) of an exception raised inside a worker.
ErrorText == "error"

\* Task ids: i stands for "task_<i>".
TaskIds == 0 .. (MaxTasks - 1)
\* A worker is one submitted work item: <<call number, task index>>.
Workers == (1 .. MaxCalls) \X TaskIds
NoWorker == <<0, 0>>
\* TaskExecution.result = None.
NoResult == [none |-> TRUE]
\* No entry under a key of self.executions.
NoExec == [status |-> None]

Paths == {"dictation", "shell", "gui"}

VARIABLES
    max_workers,   \* ThreadPoolExecutor(max_workers = max_parallel_tasks)
    gui_lock,      \* self.gui_lock: the worker holding it, or NoWorker
    executions,    \* self.executions: task id -> TaskExecution (or NoExec)
    tasks,         \* the batch of the current (or last) execute_tasks call
    ncalls,        \* execute_tasks calls started so far
    opc,           \* the orchestrator thread's position
    oi,            \* index of the for loop the orchestrator is in
    work_queue,    \* the pool's FIFO queue of submitted work items
    wpc,           \* each worker's position
    wpath,         \* each worker's route_info path
    wobj,          \* the TaskExecution a worker bound at line 114 (its call)
    wfut,          \* each work item's future: unset, a result, an exception
    ntimeouts,     \* future.result timeouts so far
    task_parser,   \* a TaskParser.parse call: its instruction and its return
    shell_executor,  \* a ShellExecutor.run call: its arguments and progress
    command_router,  \* a CommandRouter.route call: its library, input, return
    gui_executor,  \* a GUIExecutor.execute call: its loop, its effects, out
    lock_file      \* main.py's LOCK_FILE and the instances starting on it

\* The calls made on the components outside an orchestrator run.
componentVars == <<task_parser, shell_executor, command_router, gui_executor, lock_file>>

\* The orchestrator, its pool and its workers.
orchestratorVars == <<max_workers, gui_lock, executions, tasks, ncalls, opc, oi,
                      work_queue, wpc, wpath, wobj, wfut, ntimeouts>>

vars == <<orchestratorVars, componentVars>>

\* No call in progress on a component.
NoCall == [pc |-> "none"]

\* A future: not done yet, done with a result, done with an exception, or
\* dropped (the orchestrator has read it or has given up on it at line 78,
\* and nothing reads what is set on it afterwards).
NoFuture == [kind |-> "unset"]
DroppedFuture == [kind |-> "dropped"]
ResultFuture(s) == [kind |-> "result", success |-> s]
ExceptionFuture(t) == [kind |-> "exception", text |-> t]

\* ------------------------------------------------------------ TaskParser
\* Mutant of ParseTasks: no task ever depends on another.
ParseTasks_Independent(types) ==
    [i \in 1 .. Len(types) |->
        [id |-> i - 1, task_type |-> types[i], depends_on |-> {}]]

\* Mutant of ParseTasks: a parallel task behind the first depends on the
\* first task.
ParseTasks_DependOnFirst(types) ==
    [i \in 1 .. Len(types) |->
        [id |-> i - 1,
         task_type |-> types[i],
         depends_on |-> IF i - 1 > 0
                          THEN (IF types[i] = SEQUENTIAL THEN {i - 2} ELSE {0})
                          ELSE {}]]

\* Mutant of ParseTasks: a sequential task depends on its own id.
ParseTasks_SelfDep(types) ==
    [i \in 1 .. Len(types) |->
        [id |-> i - 1,
         task_type |-> types[i],
         depends_on |-> IF types[i] = SEQUENTIAL /\ i - 1 > 0
                          THEN {i - 1} ELSE {}]]

\* TaskParser.parse, lines 64-81: the tasks built from the segments'
\* connector types. A sequential task at i > 0 depends on task i-1; a
\* parallel task and the task at 0 depend on nothing.
ParseTasks(types) ==
    [i \in 1 .. Len(types) |->
        [id |-> i - 1,
         task_type |-> types[i],
         depends_on |-> IF types[i] = SEQUENTIAL /\ i - 1 > 0
                          THEN {i - 2} ELSE {}]]

\* The segment type lists _split_instruction can return, up to MaxTasks.
SegmentTypes == UNION {[1 .. n -> TaskType] : n \in 1 .. MaxTasks}

\* An instruction is the sequence of its words (text.split()), so it has no
\* leading or trailing whitespace and strip() leaves it as it is. Word k
\* (from 1) stands at the character positions [2(k-1), 2k-1): every word is
\* one position wide and one space separates two words.
WordStart(k) == 2 * (k - 1)
WordEnd(k) == 2 * k - 1
\* len(text)
TextLen(text) == IF Len(text) = 0 THEN 0 ELSE WordEnd(Len(text))

\* str.lower(), as re.IGNORECASE compares.
Lower(w) == IF w = "THEN" THEN "then" ELSE w
\* The words the checked instructions are made of: a word that is part of
\* no connector, a parallel and a sequential connector, the two ends of a
\* connector that spans the words between them, and a connector in capitals.
Instructions ==
    UNION {[1 .. n -> {"x", "and", "then", "once", "done", "THEN"}] : n \in 0 .. MaxWords}

\* TaskParser.__init__, lines 29-35. A phrase matches its words in a row
\* (\b at both ends: whole words); you\'?re is the phrase with either
\* spelling.
parallel_connectors ==
    << [kind |-> "phrase", words |-> <<"and">>],
       [kind |-> "phrase", words |-> <<"also">>],
       [kind |-> "phrase", words |-> <<"while", "you're", "doing", "that">>],
       [kind |-> "phrase", words |-> <<"while", "youre", "doing", "that">>],
       [kind |-> "phrase", words |-> <<"at", "the", "same", "time">>],
       [kind |-> "phrase", words |-> <<"meanwhile">>] >>

\* TaskParser.__init__, lines 37-44. A span is \bfirst\b.*\blast\b.
sequential_connectors ==
    << [kind |-> "phrase", words |-> <<"then">>],
       [kind |-> "phrase", words |-> <<"after">>],
       [kind |-> "span", first |-> "once", last |-> "done"],
       [kind |-> "span", first |-> "when", last |-> "finished"],
       [kind |-> "phrase", words |-> <<"next">>],
       [kind |-> "phrase", words |-> <<"followed", "by">>] >>

\* re.finditer(pattern, text, re.IGNORECASE), lines 99 and 103: the word
\* ranges <<from, to>> the pattern matches. No phrase overlaps itself, so a
\* phrase matches wherever its words stand. A span is greedy: it runs from
\* the first occurrence of its first word that has its last word behind it
\* to the last occurrence of its last word, and nothing is left to match
\* behind that.
FindIter(pattern, text) ==
    IF pattern.kind = "phrase"
    THEN {<<k, k + Len(pattern.words) - 1>> :
            k \in {j \in 1 .. Len(text) :
                     /\ j + Len(pattern.words) - 1 <= Len(text)
                     /\ \A m \in 1 .. Len(pattern.words) :
                            Lower(text[j + m - 1]) = pattern.words[m]}}
    ELSE LET firsts == {k \in 1 .. Len(text) : Lower(text[k]) = pattern.first}
             lasts == {k \in 1 .. Len(text) : Lower(text[k]) = pattern.last}
             opening == {i \in firsts : \E j \in lasts : j > i}
         IN  IF opening = {} THEN {}
             ELSE {<<CHOOSE i \in opening : \A o \in opening : i <= o,
                     CHOOSE j \in lasts : \A l \in lasts : j >= l>>}

\* _is_multi_task, lines 85-88: some connector pattern is found in the text.
IsMultiTask(text) ==
    \/ \E n \in 1 .. Len(parallel_connectors) :
            FindIter(parallel_connectors[n], text) # {}
    \/ \E n \in 1 .. Len(sequential_connectors) :
            FindIter(sequential_connectors[n], text) # {}

\* _split_instruction, lines 98-104: (match.start(), match.end(), type) of
\* every match of every pattern.
Matches(text) ==
    UNION {{[start |-> WordStart(m[1]), end |-> WordEnd(m[2]), task_type |-> PARALLEL] :
              m \in FindIter(parallel_connectors[n], text)} :
           n \in 1 .. Len(parallel_connectors)}
    \cup
    UNION {{[start |-> WordStart(m[1]), end |-> WordEnd(m[2]), task_type |-> SEQUENTIAL] :
              m \in FindIter(sequential_connectors[n], text)} :
           n \in 1 .. Len(sequential_connectors)}

\* connectors_found.sort(key = lambda x: x[0]), line 107. Two patterns begin
\* with different words, so no two matches start at the same position and
\* the order by start is the order the sort leaves.
RECURSIVE SortByStart(_)
SortByStart(found) ==
    IF found = {} THEN << >>
    ELSE LET c == CHOOSE m \in found : \A o \in found : m.start <= o.start
         IN  <<c>> \o SortByStart(found \ {c})

connectors_found(text) == SortByStart(Matches(text))

\* remaining[from:to].strip(): the words that lie inside [from, to).
Slice(text, from, to) ==
    LET inside == {k \in 1 .. Len(text) : from <= WordStart(k) /\ WordEnd(k) <= to}
    IN  IF inside = {} THEN << >>
        ELSE SubSeq(text,
                    CHOOSE k \in inside : \A o \in inside : k <= o,
                    CHOOSE k \in inside : \A o \in inside : k >= o)

\* _split_instruction, lines 113-120: the loop over the sorted connectors,
\* from connector k on, with the loop's last_end and segments. The segment
\* before a connector is kept when it is not empty; the first kept segment
\* is PARALLEL, a later one has the type of the connector behind it.
\* last_end becomes the connector's end, also when that lies before the
\* old last_end.
RECURSIVE SplitLoop(_, _, _, _, _)
SplitLoop(text, found, k, last_end, segments) ==
    IF k > Len(found) THEN [last_end |-> last_end, segments |-> segments]
    ELSE LET c == found[k]
             segment == Slice(text, last_end, c.start)
         IN  SplitLoop(text, found, k + 1, c.end,
                IF c.start > last_end /\ segment # << >>
                THEN Append(segments,
                            [segment |-> segment,
                             connector_type |-> IF segments = << >> THEN PARALLEL
                                                ELSE c.task_type])
                ELSE segments)

\* _split_instruction, lines 90-129: the segments with their types; the
\* final segment has the type of the last connector found. Without any
\* segment, the whole text is one PARALLEL segment.
SplitInstruction(text) ==
    LET found == connectors_found(text) IN
    IF found = << >> THEN << [segment |-> text, connector_type |-> PARALLEL] >>
    ELSE LET loop == SplitLoop(text, found, 1, 0, << >>)
             final_segment == Slice(text, loop.last_end, TextLen(text))
             segments ==
                IF loop.last_end < TextLen(text) /\ final_segment # << >>
                THEN Append(loop.segments,
                            [segment |-> final_segment,
                             connector_type |-> found[Len(found)].task_type])
                ELSE loop.segments
         IN  IF segments # << >> THEN segments
             ELSE << [segment |-> text, connector_type |-> PARALLEL] >>

\* Mutant of SingleTask: the lone task marked SEQUENTIAL.
SingleTask_Sequential(text) ==
    << [id |-> 0, instruction |-> text, task_type |-> SEQUENTIAL, depends_on |-> {}] >>

\* parse, lines 53-58: the one task of an instruction without connectors.
SingleTask(text) ==
    << [id |-> 0, instruction |-> text, task_type |-> PARALLEL, depends_on |-> {}] >>

\* parse, lines 46-83: the tasks of an instruction.
Parse(instruction) ==
    IF ~IsMultiTask(instruction) THEN SingleTask(instruction)
    ELSE LET segments == SplitInstruction(instruction)
             built == ParseTasks([i \in 1 .. Len(segments) |-> segments[i].connector_type])
         IN  [i \in 1 .. Len(segments) |->
                [id |-> built[i].id,
                 instruction |-> segments[i].segment,
                 task_type |-> built[i].task_type,
                 depends_on |-> built[i].depends_on]]

\* ---------------------------------------------------------------- str
\* A str is the sequence of its characters.
\* str.lower() of a character: the capitals A to Z have a small letter.
Capitals == <<"A", "B", "C", "D", "E", "F", "G", "H", "I", "J", "K", "L", "M", "N", "O", "P", "Q", "R", "S", "T", "U", "V", "W", "X", "Y", "Z">>
LowerChar(c) ==
    LET Small == <<"a", "b", "c", "d", "e", "f", "g", "h", "i", "j", "k", "l", "m", "n", "o", "p", "q", "r", "s", "t", "u", "v", "w", "x", "y", "z">>
    IN
    IF \E n \in 1 .. Len(Capitals) : Capitals[n] = c
    THEN Small[CHOOSE n \in 1 .. Len(Capitals) : Capitals[n] = c]
    ELSE c
LowerStr(s) == [i \in 1 .. Len(s) |-> LowerChar(s[i])]

\* The whitespace str.strip() removes.
Whitespace == {" ", "\t"}
\* str.strip()
RECURSIVE Strip(_)
Strip(s) ==
    IF s # << >> /\ Head(s) \in Whitespace THEN Strip(Tail(s))
    ELSE IF s # << >> /\ s[Len(s)] \in Whitespace THEN Strip(SubSeq(s, 1, Len(s) - 1))
    ELSE s

\* ' '.join(cmd)
RECURSIVE JoinSpace(_)
JoinSpace(cmd) ==
    IF cmd = << >> THEN << >>
    ELSE IF Len(cmd) = 1 THEN cmd[1]
    ELSE cmd[1] \o <<" ">> \o JoinSpace(Tail(cmd))

\* sub stands in s at position i.
SubAt(s, sub, i) ==
    /\ i + Len(sub) - 1 <= Len(s)
    /\ SubSeq(s, i, i + Len(sub) - 1) = sub
\* sub in s
Contains(s, sub) == \E i \in 1 .. Len(s) + 1 : SubAt(s, sub, i)

\* s.split(sep) for a separator of one character: the pieces between the
\* separators, the empty ones as well.
RECURSIVE SplitOn(_, _)
SplitOn(s, sep) ==
    IF \A i \in 1 .. Len(s) : s[i] # sep THEN <<s>>
    ELSE LET i == CHOOSE j \in 1 .. Len(s) :
                      s[j] = sep /\ \A k \in 1 .. j - 1 : s[k] # sep
         IN  <<SubSeq(s, 1, i - 1)>> \o SplitOn(SubSeq(s, i + 1, Len(s)), sep)
\* s.replace(old, new), for single characters.
ReplaceChar(s, old, new) == [i \in 1 .. Len(s) |-> IF s[i] = old THEN new ELSE s[i]]
\* s.split(): the pieces between runs of whitespace, none of them empty.
SplitWords(s) ==
    SelectSeq(SplitOn(ReplaceChar(s, "\t", " "), " "), LAMBDA piece : piece # << >>)

\* \w of re, on the characters the checked strings are written with.
IsWordChar(c) == c \notin {" ", "\t", "-", "/", ":", "=", "."}
\* \bword\b matches at position i of s.
WordAt(s, word, i) ==
    /\ SubAt(s, word, i)
    /\ i = 1 \/ ~IsWordChar(s[i - 1])
    /\ i + Len(word) > Len(s) \/ ~IsWordChar(s[i + Len(word)])

\* ------------------------------------------------------- SafetyManager
\* SafetyManager.__init__, lines 13-22. A pattern is \bword\b, followed or
\* not by .* and a second part, which is a \bword\b itself (then_word) or
\* plain text.
dangerous_patterns ==
    << [word |-> <<"r", "m">>, then |-> <<"-", "r", "f">>, then_word |-> FALSE],
       [word |-> <<"k", "i", "l", "l", "a", "l", "l">>, then |-> << >>, then_word |-> FALSE],
       [word |-> <<"s", "h", "u", "t", "d", "o", "w", "n">>, then |-> << >>, then_word |-> FALSE],
       [word |-> <<"r", "e", "b", "o", "o", "t">>, then |-> << >>, then_word |-> FALSE],
       [word |-> <<"s", "u", "d", "o">>, then |-> <<"r", "m">>, then_word |-> TRUE],
       [word |-> <<"d", "d">>, then |-> <<"i", "f", "=">>, then_word |-> FALSE],
       [word |-> <<"m", "k", "f", "s">>, then |-> << >>, then_word |-> FALSE],
       [word |-> <<"f", "o", "r", "m", "a", "t">>, then |-> << >>, then_word |-> FALSE] >>

\* SafetyManager.__init__, lines 25-29.
blocked_commands ==
    {<<"r", "m", " ", "-", "r", "f", " ", "/">>,
     <<"s", "u", "d", "o", " ", "r", "m", " ", "-", "r", "f", " ", "/">>,
     <<"f", "o", "r", "m", "a", "t", " ", "c", ":">>}

\* re.search(pattern, cmd_str, re.IGNORECASE), lines 42 and 65, on a string
\* of one line.
Search(pattern, cmd_str) ==
    \E i \in 1 .. Len(cmd_str) :
        /\ WordAt(cmd_str, pattern.word, i)
        /\ \E j \in (i + Len(pattern.word)) .. (Len(cmd_str) + 1) :
              IF pattern.then_word
              THEN WordAt(cmd_str, pattern.then, j)
              ELSE SubAt(cmd_str, pattern.then, j)

\* requires_confirmation, line 34: cmd_str of a command.
CmdStr(cmd) == LowerStr(JoinSpace(cmd))
\* requires_confirmation, lines 41-43: some dangerous pattern is found.
MatchesDangerous(cmd_str) ==
    \E n \in 1 .. Len(dangerous_patterns) : Search(dangerous_patterns[n], cmd_str)

\* Mutant of RequiresConfirmation: the loop returns after its first command.
RequiresConfirmation_FirstOnly(commands) ==
    /\ commands # << >>
    /\ \/ CmdStr(Head(commands)) \in blocked_commands
       \/ MatchesDangerous(CmdStr(Head(commands)))

\* requires_confirmation, lines 31-45: the loop over the commands, returning
\* True at the first blocked or dangerous one.
RECURSIVE RequiresConfirmation(_)
RequiresConfirmation(commands) ==
    IF commands = << >> THEN FALSE
    ELSE IF CmdStr(Head(commands)) \in blocked_commands THEN TRUE
    ELSE IF MatchesDangerous(CmdStr(Head(commands))) THEN TRUE
    ELSE RequiresConfirmation(Tail(commands))

\* filter_safe_commands, lines 59-69: the commands that are neither blocked
\* nor dangerous.
FilterSafeCommands(commands) ==
    SelectSeq(commands,
              LAMBDA cmd : /\ CmdStr(cmd) \notin blocked_commands
                           /\ ~MatchesDangerous(CmdStr(cmd)))

\* ------------------------------------------------------- ShellExecutor
\* The commands of the checked batches, as token lists.
Commands ==
    {<<<<"r", "m">>, <<"-", "r", "f">>, <<"/">>>>,
     <<<<"l", "s">>, <<"-", "l", "a">>>>,
     <<<<"R", "M">>, <<"-", "R", "F">>, <<"/">>>>,
     <<<<"s", "u", "d", "o">>, <<"r", "m">>, <<"x">>>>,
     <<<<"f", "i", "r", "m", "w", "a", "r", "e">>, <<"-", "r", "f">>>>,
     <<<<"c", "d">>, <<"x">>>>,
     <<>>,
     <<<<"k", "i", "l", "l">>, <<"x">>>>,
     <<<<"r", "m">>, <<"x">>>>}
Batches == UNION {[1 .. n -> Commands] : n \in 0 .. MaxCommands}

\* The lines the user types at the prompt.
Responses ==
    {<<"y", "e", "s">>,
     <<"Y", "E", "S">>,
     <<" ", "y", "e", "s", " ">>,
     <<"Y", "e", "s", "\t">>,
     <<"n", "o">>,
     <<>>,
     <<"y">>}

\* run, line 34: the commands that have tokens.
TokenCommands(commands) == SelectSeq(commands, LAMBDA cmd : cmd # << >>)

\* Mutant of Cancelled: the cancellation reported as a success without error.
Cancelled_Silent == [ok |-> TRUE, results |-> << >>, error |-> None]

\* input() has not been called, has returned a line, has raised.
NoAnswer == [kind |-> "none"]
Line(response) == [kind |-> "line", line |-> response]
Raised(exception) == [kind |-> "raised", exception |-> exception]

\* run, lines 42 and 44.
Cancelled ==
    [ok |-> FALSE, results |-> << >>, error |-> "User cancelled dangerous operation"]

\* ----------------------------------------------------------- LFMClient
\* _safety_filter, line 141.
dangerous == {<<"r", "m">>, <<"s", "h", "u", "t", "d", "o", "w", "n">>, <<"r", "e", "b", "o", "o", "t">>, <<"k", "i", "l", "l">>, <<"k", "i", "l", "l", "a", "l", "l">>}

\* Mutant of SafetyFilter: the tokens compared as they are written.
SafetyFilter_CaseSensitive(commands) ==
    SelectSeq(commands,
              LAMBDA cmd : \A n \in 1 .. Len(cmd) : cmd[n] \notin dangerous)

\* _safety_filter, lines 139-151: the commands none of whose lowercased
\* tokens is in dangerous, and that do not hold both rm and -rf.
SafetyFilter(commands) ==
    SelectSeq(commands,
              LAMBDA cmd :
                 LET tokens == [n \in 1 .. Len(cmd) |-> LowerStr(cmd[n])]
                     has(tok) == \E n \in 1 .. Len(tokens) : tokens[n] = tok
                 IN  /\ ~\E n \in 1 .. Len(tokens) : tokens[n] \in dangerous
                     /\ ~(has(<<"r", "m">>) /\ has(<<"-", "r", "f">>)))

\* What the model behind generate_commands answers: a JSON array of arrays
\* of strings, or anything else (no JSON, another shape, a token that is no
\* string, whose lower() raises inside the try blocks).
Answers == {[kind |-> "json", commands |-> batch] : batch \in Batches}
              \cup {[kind |-> "other"]}

\* generate_commands, lines 119-137: the filtered commands of a JSON array
\* of arrays, and [] for every other answer.
GenerateCommands(answer) ==
    IF answer.kind = "json" THEN SafetyFilter(answer.commands) ELSE << >>

\* ------------------------------------------------------- CommandRouter
\* CommandRouter.__init__, lines 21-24.
gui_keywords ==
    {<<"c", "l", "i", "c", "k">>,
     <<"p", "r", "e", "s", "s">>,
     <<"c", "o", "m", "p", "o", "s", "e">>,
     <<"s", "c", "r", "o", "l", "l">>,
     <<"s", "e", "l", "e", "c", "t">>,
     <<"b", "u", "t", "t", "o", "n">>,
     <<"m", "e", "n", "u">>,
     <<"t", "a", "b">>,
     <<"p", "l", "a", "y">>,
     <<"p", "a", "u", "s", "e">>,
     <<"s", "u", "b", "m", "i", "t">>,
     <<"o", "p", "e", "n", " ", "c", "o", "m", "p", "o", "s", "e">>}

\* The command libraries of the checked calls: an empty one, one with an
\* alias, one with aliases, an app and a workflow. aliases, apps and
\* workflows are listed in the order of the dict; an app's command is a
\* token list.
Libraries ==
    {[aliases |-> << >>, apps |-> << >>, workflows |-> << >>],
     [aliases |-> << [key |-> <<"y", "o", "u", "t", "u", "b", "e">>, url |-> <<"h", "t", "t", "p", "s", ":", "/", "/", "y", "o", "u", "t", "u", "b", "e", ".", "c", "o", "m">>] >>,
      apps |-> << >>,
      workflows |-> << >>],
     [aliases |-> << [key |-> <<"y", "o", "u", "t", "u", "b", "e">>, url |-> <<"h", "t", "t", "p", "s", ":", "/", "/", "y", "o", "u", "t", "u", "b", "e", ".", "c", "o", "m">>],
      [key |-> <<"m", "y", "_", "m", "a", "i", "l">>, url |-> <<"h", "t", "t", "p", "s", ":", "/", "/", "m", "a", "i", "l", ".", "c", "o", "m">>] >>,
      apps |-> << [key |-> <<"c", "h", "r", "o", "m", "e">>, cmd |-> <<<<"o", "p", "e", "n">>, <<"-", "a">>, <<"C", "h", "r", "o", "m", "e">>>>] >>,
      workflows |-> << [key |-> <<"s", "t", "a", "r", "t", "_", "d", "e", "v", "_", "s", "e", "r", "v", "e", "r">>, commands |-> << <<<<"n", "p", "m">>, <<"s", "t", "a", "r", "t">>>> >>] >>]}

\* The instructions of the checked route calls.
RouteInstructions ==
    {<<"o", "p", "e", "n", " ", "y", "o", "u", "t", "u", "b", "e">>,
     <<"c", "l", "i", "c", "k", " ", "y", "o", "u", "t", "u", "b", "e">>,
     <<"C", "l", "i", "c", "k", " ", "x">>,
     <<" ", "p", "r", "e", "s", "s", " ", "x", " ">>,
     <<"a", " ", "t", "a", "b", "l", "e">>,
     <<"d", "o", " ", "x">>,
     <<"u", "s", "e", " ", "c", "h", "r", "o", "m", "e">>,
     <<"m", "y", " ", "s", "o", "n", "g">>,
     <<"s", "t", "a", "r", "t", " ", "s", "e", "r", "v", "e", "r">>,
     <<"s", "t", "a", "r", "t", " ", "x">>}

\* No entry of the library matches: _try_deterministic_match returns None.
NoMatch == [path |-> None]
ShellPath(commands) == [path |-> "shell", commands |-> commands]

\* _try_deterministic_match, line 66: the alias, or one of the words its
\* key is made of, occurs in the instruction.
AliasMatches(key, low) ==
    \/ Contains(low, LowerStr(key))
    \/ \E n \in 1 .. Len(SplitOn(LowerStr(key), "_")) :
          Contains(low, SplitOn(LowerStr(key), "_")[n])

\* _try_deterministic_match, lines 78-79: some word of the key occurs in
\* the instruction, and at least len(key_words) // 2 of them do.
WorkflowMatches(key, low) ==
    LET key_words == SplitWords(ReplaceChar(LowerStr(key), "_", " "))
        present == {n \in 1 .. Len(key_words) : Contains(low, key_words[n])}
    IN  present # {} /\ Cardinality(present) >= Len(key_words) \div 2

\* The first entry of a dict that satisfies a test, or 0: hits tells of
\* each entry, in the order of the dict, whether it does.
FirstIndex(hits) ==
    IF \E n \in 1 .. Len(hits) : hits[n]
    THEN CHOOSE n \in 1 .. Len(hits) : hits[n] /\ \A m \in 1 .. n - 1 : ~hits[m]
    ELSE 0

\* _try_deterministic_match, lines 60-82: the first alias, else the first
\* app, else the first workflow that matches.
TryDeterministicMatch(library, text) ==
    LET low == Strip(LowerStr(text))
        alias == FirstIndex([n \in 1 .. Len(library.aliases) |->
                                AliasMatches(library.aliases[n].key, low)])
        app == FirstIndex([n \in 1 .. Len(library.apps) |->
                              Contains(low, LowerStr(library.apps[n].key))])
        workflow == FirstIndex([n \in 1 .. Len(library.workflows) |->
                                   WorkflowMatches(library.workflows[n].key, low)])
    IN  IF alias # 0 THEN ShellPath(<< <<<<"o", "p", "e", "n">>, library.aliases[alias].url>> >>)
        ELSE IF app # 0 THEN ShellPath(<< library.apps[app].cmd >>)
        ELSE IF workflow # 0 THEN ShellPath(library.workflows[workflow].commands)
        ELSE NoMatch

\* route, line 36: a GUI keyword occurs in the lowercased instruction.
HasGuiKeyword(text) == \E k \in gui_keywords : Contains(LowerStr(text), k)

\* Mutant of RouteStep: the GUI heuristic asked before the library.
RouteStep_GuiFirst(library, instruction) ==
    IF HasGuiKeyword(Strip(instruction)) THEN "gui"
    ELSE IF TryDeterministicMatch(library, Strip(instruction)) # NoMatch
    THEN "deterministic"
    ELSE "generate"

\* route, lines 27-39: the step that decides, in the order of the code.
RouteStep(library, instruction) ==
    IF TryDeterministicMatch(library, Strip(instruction)) # NoMatch
    THEN "deterministic"
    ELSE IF HasGuiKeyword(Strip(instruction)) THEN "gui"
    ELSE "generate"

\* ------------------------------------------------------------- the state
\* TaskExecution(task = task, status = PENDING), created by call c.
NewExecution(c) ==
    [status |-> PENDING, result |-> NoResult, error |-> None,
     started_at |-> FALSE, completed_at |-> FALSE, call |-> c]

\* ContextManager.__init__, lines 36-39: a pool of the configured size (any
\* size up to the default), a free lock, no executions.
ContextManagerInit ==
    /\ max_workers \in 1 .. max_parallel_tasks
    /\ gui_lock = NoWorker
    /\ executions = [i \in TaskIds |-> NoExec]
    /\ tasks = << >>
    /\ ncalls = 0
    /\ opc = "idle"
    /\ oi = 0
    /\ work_queue = << >>
    /\ wpc = [w \in Workers |-> "none"]
    /\ wpath = [w \in Workers |-> None]
    /\ wobj = [w \in Workers |-> 0]
    /\ wfut = [w \in Workers |-> NoFuture]
    /\ ntimeouts = 0

\* The orchestrator runs; no call is made on a component outside it.
Init ==
    /\ ContextManagerInit
    /\ task_parser = NoCall
    /\ shell_executor = NoCall
    /\ command_router = NoCall
    /\ gui_executor = NoCall
    /\ lock_file = NoCall

\* ------------------------------------------------- the pool and the lock
\* The pool's threads that are running a work item.
Busy == {w \in Workers : wpc[w] \in {"route", "lockwait", "act"}}

\* Mutant of PoolHasFreeThread: a pool that starts every queued work item at
\* once, whatever its size.
PoolHasFreeThread_Unbounded == TRUE

\* ThreadPoolExecutor(max_workers = max_parallel_tasks), line 37: a work
\* item starts only on a thread of the pool that is not running another.
PoolHasFreeThread == Cardinality(Busy) < max_workers

\* Mutant of GuiLockFree: the gui path entered without taking the lock.
GuiLockFree_NoLock == TRUE

\* threading.Lock, line 38: acquire succeeds only on a free lock.
GuiLockFree == gui_lock = NoWorker

\* ------------------------------------------------------ the orchestrator
\* execute_tasks, lines 52-57: one PENDING TaskExecution per task of the
\* batch, stored under the task's id; entries under other ids stay.
ExecuteTasks(types) ==
    /\ opc = "idle"
    /\ ncalls < MaxCalls
    /\ ncalls' = ncalls + 1
    /\ tasks' = [i \in 1 .. Len(types) |->
                    [id |-> ParseTasks(types)[i].id,
                     depends_on |-> ParseTasks(types)[i].depends_on]]
    /\ executions' = [i \in TaskIds |->
                        IF i < Len(types) THEN NewExecution(ncalls + 1)
                        ELSE executions[i]]
    /\ opc' = "submit"
    /\ oi' = 1
    /\ UNCHANGED <<componentVars, max_workers, gui_lock, work_queue, wpc, wpath, wobj, wfut, ntimeouts>>

\* _wait_for_dependencies, lines 90-99: every dependency that has an entry
\* in self.executions is COMPLETED or FAILED.
AllDepsDone(task) ==
    \A dep_id \in task.depends_on :
        executions[dep_id] # NoExec
            => executions[dep_id].status \in {COMPLETED, FAILED}

\* _wait_for_dependencies, lines 89-101: one more round of the polling loop
\* (time.sleep(0.1)); nothing changes.
WaitForDependencies ==
    /\ opc = "submit"
    /\ oi <= Len(tasks)
    /\ ~AllDepsDone(tasks[oi])
    /\ UNCHANGED vars

\* execute_tasks, lines 59-73: the dependency wait is over, the task is
\* submitted to the pool and the loop moves on.
SubmitTask ==
    /\ opc = "submit"
    /\ oi <= Len(tasks)
    /\ AllDepsDone(tasks[oi])
    /\ LET w == <<ncalls, tasks[oi].id>> IN
        /\ work_queue' = Append(work_queue, w)
        /\ wpc' = [wpc EXCEPT ![w] = "queued"]
    /\ oi' = oi + 1
    /\ UNCHANGED <<componentVars, max_workers, gui_lock, executions, tasks, ncalls, opc,
                   wpath, wobj, wfut, ntimeouts>>

\* execute_tasks, line 76: the submit loop is over, the collection begins.
BeginCollect ==
    /\ opc = "submit"
    /\ oi > Len(tasks)
    /\ opc' = "collect"
    /\ oi' = 1
    /\ UNCHANGED <<componentVars, max_workers, gui_lock, executions, tasks, ncalls,
                   work_queue, wpc, wpath, wobj, wfut, ntimeouts>>

\* Mutant of CollectResult: the status taken from the result's success.
CollectResult_BySuccess ==
    /\ opc = "collect"
    /\ oi <= Len(tasks)
    /\ LET id == tasks[oi].id
           f == wfut[<<ncalls, id>>] IN
        /\ f.kind = "result"
        /\ executions' = [executions EXCEPT
                            ![id].result = [success |-> f.success],
                            ![id].status = IF f.success THEN COMPLETED ELSE FAILED]
        /\ wfut' = [wfut EXCEPT ![<<ncalls, id>>] = DroppedFuture]
    /\ oi' = oi + 1
    /\ UNCHANGED <<componentVars, max_workers, gui_lock, tasks, ncalls, opc, work_queue,
                   wpc, wpath, wobj, ntimeouts>>

\* execute_tasks, lines 78-80: the future holds a result.
CollectResult ==
    /\ opc = "collect"
    /\ oi <= Len(tasks)
    /\ LET id == tasks[oi].id
           f == wfut[<<ncalls, id>>] IN
        /\ f.kind = "result"
        /\ executions' = [executions EXCEPT
                            ![id].result = [success |-> f.success],
                            ![id].status = COMPLETED]
        /\ wfut' = [wfut EXCEPT ![<<ncalls, id>>] = DroppedFuture]
    /\ oi' = oi + 1
    /\ UNCHANGED <<componentVars, max_workers, gui_lock, tasks, ncalls, opc, work_queue,
                   wpc, wpath, wobj, ntimeouts>>

\* execute_tasks, lines 78, 81-83: future.result re-raises the worker's
\* exception.
CollectException ==
    /\ opc = "collect"
    /\ oi <= Len(tasks)
    /\ LET id == tasks[oi].id
           f == wfut[<<ncalls, id>>] IN
        /\ f.kind = "exception"
        /\ executions' = [executions EXCEPT
                            ![id].error = f.text,
                            ![id].status = FAILED]
        /\ wfut' = [wfut EXCEPT ![<<ncalls, id>>] = DroppedFuture]
    /\ oi' = oi + 1
    /\ UNCHANGED <<componentVars, max_workers, gui_lock, tasks, ncalls, opc, work_queue,
                   wpc, wpath, wobj, ntimeouts>>

\* The hand-overs that take no time against the 300 s of line 78: a queued
\* work item with a free pool thread starts, a lock waiter takes a free lock.
HandOverPending ==
    \/ work_queue # << >> /\ PoolHasFreeThread
    \/ \E w \in Workers : wpc[w] = "lockwait" /\ GuiLockFree

\* execute_tasks, lines 78, 81-83: the future is not done after 300 s and
\* future.result raises TimeoutError; the work item stays where it is. The
\* 300 s pass only while the work items are held up by calls that take
\* that long, not while a thread or the lock is free for them.
CollectTimeout ==
    /\ opc = "collect"
    /\ oi <= Len(tasks)
    /\ LET id == tasks[oi].id
           f == wfut[<<ncalls, id>>] IN
        /\ f.kind = "unset"
        /\ ~HandOverPending
        /\ ntimeouts < MaxTimeouts
        /\ ntimeouts' = ntimeouts + 1
        /\ executions' = [executions EXCEPT
                            ![id].error = TimeoutText,
                            ![id].status = FAILED]
        /\ wfut' = [wfut EXCEPT ![<<ncalls, id>>] = DroppedFuture]
    /\ oi' = oi + 1
    /\ UNCHANGED <<componentVars, max_workers, gui_lock, tasks, ncalls, opc, work_queue,
                   wpc, wpath, wobj>>

\* execute_tasks, line 85: return self.executions.
ReturnExecutions ==
    /\ opc = "collect"
    /\ oi > Len(tasks)
    /\ opc' = "idle"
    /\ oi' = 0
    /\ UNCHANGED <<componentVars, max_workers, gui_lock, executions, tasks, ncalls,
                   work_queue, wpc, wpath, wobj, wfut, ntimeouts>>

\* ------------------------------------------------------ the worker pool
\* _execute_single_task, lines 114-116, on a pool thread: the oldest queued
\* work item starts, binds self.executions[task.id] and marks it RUNNING.
StartWorker(w) ==
    /\ work_queue # << >>
    /\ w = Head(work_queue)
    /\ PoolHasFreeThread
    /\ work_queue' = Tail(work_queue)
    /\ wpc' = [wpc EXCEPT ![w] = "route"]
    /\ wobj' = [wobj EXCEPT ![w] = executions[w[2]].call]
    /\ executions' = [executions EXCEPT
                        ![w[2]].status = RUNNING,
                        ![w[2]].started_at = TRUE]
    /\ UNCHANGED <<componentVars, max_workers, gui_lock, tasks, ncalls, opc, oi, wpath, wfut, ntimeouts>>

\* _execute_single_task, lines 147-152 and the future: execution.completed_at
\* is written to the TaskExecution bound at line 114 (which a later call may
\* have replaced in self.executions), the lock of a with block is released,
\* and the future is set.
Finish(w, f) ==
    /\ wpc' = [wpc EXCEPT ![w] = "done"]
    /\ wfut' = [wfut EXCEPT ![w] = IF wfut[w] = DroppedFuture THEN DroppedFuture ELSE f]
    /\ wpath' = [wpath EXCEPT ![w] = None]
    /\ wobj' = [wobj EXCEPT ![w] = 0]
    /\ gui_lock' = IF gui_lock = w THEN NoWorker ELSE gui_lock
    /\ executions' = IF executions[w[2]].call = wobj[w]
                       THEN [executions EXCEPT ![w[2]].completed_at = TRUE]
                       ELSE executions
    /\ UNCHANGED <<componentVars, max_workers, tasks, ncalls, opc, oi, work_queue, ntimeouts>>

\* Mutant of NeedsGuiLock: the dictation path wrapped in the lock as well.
NeedsGuiLock_DictationToo(path) == path \in {"gui", "dictation"}

\* Mutant of NeedsGuiLock: the shell path wrapped in the lock as well.
NeedsGuiLock_ShellToo(path) == path \in {"gui", "shell"}

\* _execute_single_task, lines 137-139: only the gui path takes gui_lock.
NeedsGuiLock(path) == path = "gui"

\* _execute_single_task, lines 120-139: command_router.route returns a path
\* with commands; the worker goes on to its action, or to the lock first.
Route(w, path) ==
    /\ wpc[w] = "route"
    /\ wpath' = [wpath EXCEPT ![w] = path]
    /\ wpc' = [wpc EXCEPT ![w] = IF NeedsGuiLock(path) THEN "lockwait" ELSE "act"]
    /\ UNCHANGED <<componentVars, max_workers, gui_lock, executions, tasks, ncalls, opc, oi,
                   work_queue, wobj, wfut, ntimeouts>>

\* _execute_single_task, lines 129-131, 147-148: the shell path without
\* commands runs nothing and returns success = False.
RouteNoCommands(w) ==
    /\ wpc[w] = "route"
    /\ Finish(w, ResultFuture(FALSE))

\* _execute_single_task, lines 120, 150-152: command_router.route raises.
RouteRaises(w) ==
    /\ wpc[w] = "route"
    /\ Finish(w, ExceptionFuture(ErrorText))

\* _execute_single_task, line 139: with self.gui_lock, entered.
AcquireGuiLock(w) ==
    /\ wpc[w] = "lockwait"
    /\ GuiLockFree
    /\ gui_lock' = w
    /\ wpc' = [wpc EXCEPT ![w] = "act"]
    /\ UNCHANGED <<componentVars, max_workers, executions, tasks, ncalls, opc, oi,
                   work_queue, wpath, wobj, wfut, ntimeouts>>

\* _execute_single_task, lines 125-148: the success values the action of a
\* path can report: type_text always True, run and execute either.
SuccessOf(path) == IF path = "dictation" THEN {TRUE} ELSE BOOLEAN

\* _execute_single_task, lines 125-148: type_text, shell_executor.run or
\* gui_executor.execute returns and the worker returns its result.
ActionReturns(w, success) ==
    /\ wpc[w] = "act"
    /\ success \in SuccessOf(wpath[w])
    /\ Finish(w, ResultFuture(success))

\* _execute_single_task, lines 125-145, 150-152: the action raises; a with
\* block releases the lock on the way out.
ActionRaises(w) ==
    /\ wpc[w] = "act"
    /\ Finish(w, ExceptionFuture(ErrorText))

\* ------------------------------------------------------------ the system
Orchestrator ==
    \/ \E types \in SegmentTypes : ExecuteTasks(types)
    \/ WaitForDependencies
    \/ SubmitTask
    \/ BeginCollect
    \/ CollectResult
    \/ CollectException
    \/ CollectTimeout
    \/ ReturnExecutions

Worker(w) ==
    \/ StartWorker(w)
    \/ \E path \in Paths : Route(w, path)
    \/ RouteNoCommands(w)
    \/ RouteRaises(w)
    \/ AcquireGuiLock(w)
    \/ \E success \in BOOLEAN : ActionReturns(w, success)
    \/ ActionRaises(w)

Next == Orchestrator \/ \E w \in Workers : Worker(w)

Spec == Init /\ [][Next]_vars

\* Every thread that can take a step eventually takes one: the orchestrator
\* thread and the pool's threads are scheduled by the operating system, and
\* every action called by a worker terminates.
FairSpec == Spec /\ WF_vars(Next)

\* ------------------------------------------------- TaskParser.parse alone
\* A process that has built its components and handles one instruction.
ParserInit ==
    /\ ContextManagerInit
    /\ max_workers = max_parallel_tasks
    /\ task_parser \in {[pc |-> "parse", instruction |-> text, tasks |-> None] :
                          text \in Instructions}
    /\ shell_executor = NoCall
    /\ command_router = NoCall
    /\ gui_executor = NoCall
    /\ lock_file = NoCall

\* parse, lines 46-83: the call returns its tasks.
ParseReturns ==
    /\ task_parser.pc = "parse"
    /\ task_parser' = [task_parser EXCEPT !.pc = "returned",
                                          !.tasks = Parse(task_parser.instruction)]
    /\ UNCHANGED <<orchestratorVars, shell_executor, command_router, gui_executor, lock_file>>

ParserNext == ParseReturns

ParserSpec == ParserInit /\ [][ParserNext]_vars

\* ------------------------------------------------ ShellExecutor.run alone
\* run(commands, interactive), lines 29-31: the call has its cur_cwd, an
\* empty results list and all_ok = True. ran lists the token lists handed to
\* subprocess.run, answer is what input() gave.
ShellInit ==
    /\ ContextManagerInit
    /\ max_workers = max_parallel_tasks
    /\ task_parser = NoCall
    /\ shell_executor \in {[pc |-> "gate", commands |-> batch, interactive |-> i,
                            cur_cwd |-> << <<".">> >>, results |-> << >>,
                            all_ok |-> TRUE, at |-> 1, ran |-> << >>,
                            answer |-> NoAnswer, ret |-> NoResult] :
                             batch \in Batches, i \in BOOLEAN}
    /\ command_router = NoCall
    /\ gui_executor = NoCall
    /\ lock_file = NoCall

\* run, lines 34-37: an interactive call whose commands require confirmation
\* prompts.
NeedsPrompt(interactive, commands) ==
    interactive /\ RequiresConfirmation(TokenCommands(commands))

\* run, lines 33-38: the safety gate.
SafetyGate ==
    /\ shell_executor.pc = "gate"
    /\ shell_executor' =
          [shell_executor EXCEPT
              !.pc = IF NeedsPrompt(shell_executor.interactive, shell_executor.commands)
                     THEN "prompt" ELSE "loop"]
    /\ UNCHANGED <<orchestratorVars, task_parser, command_router, gui_executor, lock_file>>

\* Mutant of Confirms: every line that is not no confirms.
Confirms_UnlessNo(response) == LowerStr(Strip(response)) # <<"n", "o">>

\* run, lines 40-41: the line read confirms when, stripped and lowercased,
\* it is yes.
Confirms(response) == LowerStr(Strip(response)) = <<"y", "e", "s">>

\* run, lines 40-42: input() returns a line; the call goes on to the
\* commands or returns the cancellation.
InputReturns(response) ==
    /\ shell_executor.pc = "prompt"
    /\ shell_executor' =
          IF Confirms(response)
          THEN [shell_executor EXCEPT !.pc = "loop", !.answer = Line(response)]
          ELSE [shell_executor EXCEPT !.pc = "returned", !.answer = Line(response),
                                      !.ret = Cancelled]
    /\ UNCHANGED <<orchestratorVars, task_parser, command_router, gui_executor, lock_file>>

\* run, lines 43-44: input() raises EOFError or KeyboardInterrupt.
InputRaises(exception) ==
    /\ shell_executor.pc = "prompt"
    /\ shell_executor' = [shell_executor EXCEPT !.pc = "returned",
                                                !.answer = Raised(exception),
                                                !.ret = Cancelled]
    /\ UNCHANGED <<orchestratorVars, task_parser, command_router, gui_executor, lock_file>>

\* The command the for loop of line 46 is at.
LoopAt ==
    /\ shell_executor.pc = "loop"
    /\ shell_executor.at <= Len(shell_executor.commands)
Tokens == shell_executor.commands[shell_executor.at]

\* run, lines 47-49: a command without tokens is skipped.
SkipEmpty ==
    /\ LoopAt
    /\ Tokens = << >>
    /\ shell_executor' = [shell_executor EXCEPT !.at = @ + 1]
    /\ UNCHANGED <<orchestratorVars, task_parser, command_router, gui_executor, lock_file>>

\* run, lines 50-55: cd changes cur_cwd, to an absolute path or to the
\* path joined to the current one, and is recorded as a success.
ChangeDirectory ==
    /\ LoopAt
    /\ Tokens # << >>
    /\ Tokens[1] = <<"c", "d">>
    /\ LET new_dir == IF Len(Tokens) > 1 THEN Tokens[2] ELSE <<".">>
           cwd == IF new_dir # << >> /\ Head(new_dir) = "/" THEN <<new_dir>>
                  ELSE Append(shell_executor.cur_cwd, new_dir)
       IN
        shell_executor' =
            [shell_executor EXCEPT
                !.cur_cwd = cwd,
                !.results = Append(@, [cmd |-> Tokens, cwd |-> cwd, returncode |-> 0]),
                !.at = @ + 1]
    /\ UNCHANGED <<orchestratorVars, task_parser, command_router, gui_executor, lock_file>>

\* run, lines 56-72: subprocess.run returns with a return code.
SubprocessReturns(returncode) ==
    /\ LoopAt
    /\ Tokens # << >>
    /\ Tokens[1] # <<"c", "d">>
    /\ shell_executor' =
          [shell_executor EXCEPT
              !.ran = Append(@, Tokens),
              !.all_ok = @ /\ returncode = 0,
              !.results = Append(@, [cmd |-> Tokens, cwd |-> shell_executor.cur_cwd,
                                     returncode |-> returncode]),
              !.at = @ + 1]
    /\ UNCHANGED <<orchestratorVars, task_parser, command_router, gui_executor, lock_file>>

\* run, lines 56-63, 73-81: subprocess.run raises (no such program, the
\* timeout).
SubprocessRaises ==
    /\ LoopAt
    /\ Tokens # << >>
    /\ Tokens[1] # <<"c", "d">>
    /\ shell_executor' =
          [shell_executor EXCEPT
              !.ran = Append(@, Tokens),
              !.all_ok = FALSE,
              !.results = Append(@, [cmd |-> Tokens, cwd |-> shell_executor.cur_cwd,
                                     returncode |-> -1]),
              !.at = @ + 1]
    /\ UNCHANGED <<orchestratorVars, task_parser, command_router, gui_executor, lock_file>>

\* run, line 82: return all_ok, {"results": results}.
RunReturns ==
    /\ shell_executor.pc = "loop"
    /\ shell_executor.at > Len(shell_executor.commands)
    /\ shell_executor' =
          [shell_executor EXCEPT
              !.pc = "returned",
              !.ret = [ok |-> shell_executor.all_ok,
                       results |-> shell_executor.results,
                       error |-> None]]
    /\ UNCHANGED <<orchestratorVars, task_parser, command_router, gui_executor, lock_file>>

ShellNext ==
    \/ SafetyGate
    \/ \E response \in Responses : InputReturns(response)
    \/ \E exception \in {"EOFError", "KeyboardInterrupt"} : InputRaises(exception)
    \/ SkipEmpty
    \/ ChangeDirectory
    \/ \E returncode \in {0, 1} : SubprocessReturns(returncode)
    \/ SubprocessRaises
    \/ RunReturns

ShellSpec == ShellInit /\ [][ShellNext]_vars

\* ------------------------------------------------ CommandRouter.route alone
\* route(instruction) on a router built with a command library and the
\* LFMClient. calls counts the calls of generate_commands, answered is
\* what the model behind it answered, generated is what the call gave.
RouterInit ==
    /\ ContextManagerInit
    /\ max_workers = max_parallel_tasks
    /\ task_parser = NoCall
    /\ shell_executor = NoCall
    /\ command_router \in {[pc |-> "route", library |-> library,
                            instruction |-> instruction, calls |-> 0,
                            answered |-> NoAnswer, generated |-> NoAnswer,
                            ret |-> NoResult] :
                             library \in Libraries, instruction \in RouteInstructions}
    /\ gui_executor = NoCall
    /\ lock_file = NoCall

\* route, lines 31-33: an entry of the library matches and decides.
DeterministicMatch ==
    /\ command_router.pc = "route"
    /\ RouteStep(command_router.library, command_router.instruction) = "deterministic"
    /\ command_router' =
          [command_router EXCEPT
              !.pc = "returned",
              !.ret = TryDeterministicMatch(command_router.library,
                                            Strip(command_router.instruction))]
    /\ UNCHANGED <<orchestratorVars, task_parser, shell_executor, gui_executor, lock_file>>

\* route, lines 36-37: a GUI keyword decides.
GuiHeuristic ==
    /\ command_router.pc = "route"
    /\ RouteStep(command_router.library, command_router.instruction) = "gui"
    /\ command_router' = [command_router EXCEPT !.pc = "returned",
                                                !.ret = [path |-> "gui"]]
    /\ UNCHANGED <<orchestratorVars, task_parser, shell_executor, gui_executor, lock_file>>

\* route, lines 40-41: self.lfm.generate_commands is called.
CallGenerator ==
    /\ command_router.pc = "route"
    /\ RouteStep(command_router.library, command_router.instruction) = "generate"
    /\ command_router' = [command_router EXCEPT !.pc = "generate", !.calls = @ + 1]
    /\ UNCHANGED <<orchestratorVars, task_parser, shell_executor, gui_executor, lock_file>>

\* route, lines 54-58: the path for the commands the generator gave.
AfterGenerate(commands) ==
    IF commands # << >> THEN ShellPath(commands) ELSE [path |-> "dictation"]

\* route, lines 41-50, 54-58: generate_commands returns its commands.
GeneratorReturns(answer) ==
    /\ command_router.pc = "generate"
    /\ command_router' =
          [command_router EXCEPT
              !.pc = "returned",
              !.answered = answer,
              !.generated = [kind |-> "returned", commands |-> GenerateCommands(answer)],
              !.ret = AfterGenerate(GenerateCommands(answer))]
    /\ UNCHANGED <<orchestratorVars, task_parser, shell_executor, gui_executor, lock_file>>

\* route, lines 51-58: generate_commands raises and commands is [].
GeneratorRaises ==
    /\ command_router.pc = "generate"
    /\ command_router' = [command_router EXCEPT !.pc = "returned",
                                                !.generated = Raised("Exception"),
                                                !.ret = AfterGenerate(<< >>)]
    /\ UNCHANGED <<orchestratorVars, task_parser, shell_executor, gui_executor, lock_file>>

RouterNext ==
    \/ DeterministicMatch
    \/ GuiHeuristic
    \/ CallGenerator
    \/ \E answer \in Answers : GeneratorReturns(answer)
    \/ GeneratorRaises

RouterSpec == RouterInit /\ [][RouterNext]_vars

\* ------------------------------------------------ GUIExecutor.execute alone
\* The screen points the vision service names: the second lies exactly
\* verify_radius from the first, the third further than that from both.
Points == {[x |-> 100, y |-> 100], [x |-> 132, y |-> 100], [x |-> 200, y |-> 100]}
\* The targets of a prediction: a point with a confidence in tenths.
Targets == {[x |-> pt.x, y |-> pt.y, confidence |-> c] : pt \in Points, c \in {3, 5, 9}}
\* pred.get("targets", []): the target lists the service answers with; the
\* empty list stands for an answer without targets or one that is no dict.
TargetLists == UNION {[1 .. n -> Targets] : n \in 0 .. MaxTargets}

\* The instructions of the checked execute calls.
GuiInstructions ==
    {<<"c", "l", "i", "c", "k", " ", "x">>,
     <<"C", "o", "m", "p", "o", "s", "e", " ", "x">>,
     <<"r", "e", "n", "e", "w", " ", "x">>,
     <<"s", "a", "v", "e", " ", "x">>}

\* _dist, lines 20-22: the square of math.hypot(dx, dy).
Dist2(a, b) == (a.x - b.x) * (a.x - b.x) + (a.y - b.y) * (a.y - b.y)

\* max(targets, key = conf), line 88: the first target of the highest
\* confidence.
Best(targets) ==
    targets[CHOOSE n \in 1 .. Len(targets) :
               /\ \A m \in 1 .. Len(targets) : targets[m].confidence <= targets[n].confidence
               /\ \A m \in 1 .. n - 1 : targets[m].confidence < targets[n].confidence]

\* min(v_targets, key = distance to (tx, ty)), line 134: the first of the
\* closest targets.
Closest(v_targets, point) ==
    v_targets[CHOOSE n \in 1 .. Len(v_targets) :
                 /\ \A m \in 1 .. Len(v_targets) :
                       Dist2(v_targets[n], point) <= Dist2(v_targets[m], point)
                 /\ \A m \in 1 .. n - 1 :
                       Dist2(v_targets[m], point) > Dist2(v_targets[n], point)]

\* lines 122-127: some verification target lies within the radius.
Near(v_targets, point) ==
    \E n \in 1 .. Len(v_targets) :
        Dist2(v_targets[n], point) <= verify_radius * verify_radius

\* out["target"] = None, a point that is not set.
NoPoint == [none |-> TRUE]
PointOf(t) == [x |-> t.x, y |-> t.y]

\* execute, lines 36-42: out as the call starts, the mouse where it is.
\* clicks and keys list what the mouse and the keyboard are made to do,
\* predictions and verifications count the queries, candidates tells
\* whether some prediction held a target, confirmed is the candidate that
\* attempt 0 chose and its verification found near. event is what the last
\* step met: a screenshot taken, an exception, the prediction's answer (no
\* targets, a best one below the confidence 0.5 or not), the
\* verification's answer (a target near, all away, no targets), the
\* fallback or the end of the loop; empties counts the predictions
\* that returned no targets; v_targets holds the points of the
\* verification's answer while the attempt goes on.
GuiInit ==
    /\ ContextManagerInit
    /\ max_workers = max_parallel_tasks
    /\ lock_file = NoCall
    /\ task_parser = NoCall
    /\ shell_executor = NoCall
    /\ command_router = NoCall
    /\ gui_executor \in
          {[pc |-> "capture", instruction |-> instruction, max_retries |-> cap,
            attempt |-> 0, point |-> NoPoint, mouse |-> [x |-> 0, y |-> 0],
            clicks |-> << >>, keys |-> << >>,
            predictions |-> 0, verifications |-> 0, candidates |-> FALSE,
            confirmed |-> NoPoint, screenshots |-> {},
            event |-> "call", empties |-> 0, v_targets |-> << >>,
            success |-> FALSE, target |-> NoPoint, error |-> "",
            retries_used |-> 0, fallback |-> None,
            mouse_move_from |-> NoPoint, mouse_click_at |-> NoPoint] :
               instruction \in GuiInstructions, cap \in 0 .. max_retries}

GuiOthers == <<orchestratorVars, task_parser, shell_executor, command_router, lock_file>>

\* Mutant of InAttempt: the loop runs one attempt more than the cap.
InAttempt_OneMore == gui_executor.attempt <= gui_executor.max_retries

\* The loop of line 44 is at an attempt.
InAttempt == gui_executor.attempt < gui_executor.max_retries
\* Mutant of LastAttempt: every attempt is taken for the last one.
LastAttempt_Always == TRUE

LastAttempt == gui_executor.attempt = gui_executor.max_retries - 1

\* continue: the loop goes to its next attempt.
Continue(g) == [g EXCEPT !.pc = "capture", !.attempt = @ + 1, !.v_targets = << >>]

\* Mutant of Except: the exception of an attempt that is not the last ends
\* the call as well.
Except_NoRetry(g) ==
    [g EXCEPT !.pc = "returned", !.error = ErrorText, !.event = "raised",
              !.v_targets = << >>]

\* execute, lines 151-155: an exception in the last attempt ends the call
\* with its text as error, one in an earlier attempt is swallowed.
Except(g) ==
    IF g.attempt = g.max_retries - 1
    THEN [g EXCEPT !.pc = "returned", !.error = ErrorText, !.event = "raised",
                   !.v_targets = << >>]
    ELSE Continue([g EXCEPT !.event = "raised"])

\* execute, lines 157-160: the loop is over without a return.
LoopEnds ==
    /\ gui_executor.pc = "capture"
    /\ ~InAttempt
    /\ gui_executor' = [gui_executor EXCEPT
                           !.pc = "returned",
                           !.event = "end",
                           !.error = "max_retries_exceeded",
                           !.retries_used = gui_executor.max_retries]
    /\ UNCHANGED GuiOthers

\* execute, lines 47-57: the screenshot of the attempt is taken.
CaptureBefore ==
    /\ gui_executor.pc = "capture"
    /\ InAttempt
    /\ gui_executor' = [gui_executor EXCEPT
                           !.pc = "predict",
                           !.event = "captured",
                           !.screenshots = @ \cup {<<"attempt", gui_executor.attempt>>}]
    /\ UNCHANGED GuiOthers

\* execute, lines 48-54, 104, 142: capture_fullscreen raises.
CaptureRaises ==
    /\ \/ gui_executor.pc = "capture" /\ InAttempt
       \/ gui_executor.pc \in {"verify_capture", "after_capture"}
    /\ gui_executor' = Except(gui_executor)
    /\ UNCHANGED GuiOthers

\* execute, line 92: a candidate below the confidence 0.5 is skipped in the
\* attempts 0 and 1.
Accepts(attempt, confidence) == ~(attempt < 2 /\ confidence < min_confidence)

\* execute, lines 67-101: the prediction returns. Without targets the last
\* attempt goes to the keyboard fallback and an earlier one to the next
\* attempt; a best target that is not accepted ends the attempt; an
\* accepted one becomes (tx, ty) and out["target"].
PredictReturns(targets) ==
    /\ gui_executor.pc = "predict"
    /\ LET g == [gui_executor EXCEPT
                    !.predictions = @ + 1,
                    !.candidates = @ \/ targets # << >>,
                    !.empties = IF targets = << >> THEN @ + 1 ELSE @,
                    !.event = IF targets = << >> THEN "none"
                              ELSE IF Best(targets).confidence < min_confidence
                              THEN "weak" ELSE "strong"]
       IN  gui_executor' =
              IF targets = << >>
              THEN IF LastAttempt THEN [g EXCEPT !.pc = "fallback"] ELSE Continue(g)
              ELSE IF ~Accepts(g.attempt, Best(targets).confidence) THEN Continue(g)
              ELSE [g EXCEPT !.pc = "verify_capture",
                             !.point = PointOf(Best(targets)),
                             !.target = Best(targets)]
    /\ UNCHANGED GuiOthers

\* execute, lines 67-72: suggest_targets raises.
PredictRaises ==
    /\ gui_executor.pc = "predict"
    /\ gui_executor' = Except([gui_executor EXCEPT !.predictions = @ + 1])
    /\ UNCHANGED GuiOthers

\* execute, lines 104-106: the verification screenshot is taken.
CaptureVerify ==
    /\ gui_executor.pc = "verify_capture"
    /\ gui_executor' = [gui_executor EXCEPT !.pc = "verify",
                                            !.event = "captured",
                                            !.screenshots = @ \cup {<<"verify">>}]
    /\ UNCHANGED GuiOthers

\* execute, lines 132-135: the point the click goes to when it is made, the
\* closest verification target when none is near.
Retarget(v_targets, point) ==
    IF ~Near(v_targets, point) /\ v_targets # << >>
    THEN PointOf(Closest(v_targets, point))
    ELSE point

\* execute, lines 113-140: the verification returns. When its targets are
\* all away from (tx, ty) and the attempt is not the last, the attempt
\* ends; otherwise the pointer is moved and the click is made.
VerifyReturns(v_targets) ==
    /\ gui_executor.pc = "verify"
    /\ LET g == [gui_executor EXCEPT
                    !.verifications = @ + 1,
                    !.v_targets = [n \in 1 .. Len(v_targets) |-> PointOf(v_targets[n])],
                    !.event = IF v_targets = << >> THEN "empty"
                              ELSE IF Near(v_targets, gui_executor.point)
                              THEN "near" ELSE "away",
                    !.confirmed = IF gui_executor.attempt = 0
                                     /\ Near(v_targets, gui_executor.point)
                                  THEN gui_executor.point ELSE @]
           at == Retarget(v_targets, g.point)
       IN  gui_executor' =
              IF ~Near(v_targets, g.point) /\ v_targets # << >> /\ ~LastAttempt
              THEN Continue(g)
              ELSE [g EXCEPT !.pc = "after_capture",
                             !.point = at,
                             !.mouse_move_from = g.mouse,
                             !.mouse = at,
                             !.clicks = Append(@, at)]
    /\ UNCHANGED GuiOthers

\* execute, lines 113-118: the verification query raises.
VerifyRaises ==
    /\ gui_executor.pc = "verify"
    /\ gui_executor' = Except([gui_executor EXCEPT !.verifications = @ + 1])
    /\ UNCHANGED GuiOthers

\* execute, lines 142-149: the screenshot after the click is taken and the
\* call returns its success.
CaptureAfter ==
    /\ gui_executor.pc = "after_capture"
    /\ gui_executor' = [gui_executor EXCEPT
                           !.pc = "returned",
                           !.event = "captured",
                           !.v_targets = << >>,
                           !.screenshots = @ \cup {<<"after">>},
                           !.success = TRUE,
                           !.mouse_click_at = gui_executor.point,
                           !.retries_used = gui_executor.attempt]
    /\ UNCHANGED GuiOthers

\* Mutant of Shortcut: every instruction has the shortcut of compose.
Shortcut_AlwaysNew(instruction) == "n"

\* _fallback_keyboard_action, lines 171-196: the shortcut of the first
\* keyword the lowercased instruction holds, or None.
Shortcut(instruction) ==
    LET low == LowerStr(instruction) IN
    IF Contains(low, <<"c", "o", "m", "p", "o", "s", "e">>) \/ Contains(low, <<"n", "e", "w">>) THEN "n"
    ELSE IF Contains(low, <<"s", "a", "v", "e">>) THEN "s"
    ELSE IF Contains(low, <<"c", "o", "p", "y">>) THEN "c"
    ELSE IF Contains(low, <<"p", "a", "s", "t", "e">>) THEN "v"
    ELSE None

\* execute, line 78, and _fallback_keyboard_action, lines 162-201: the
\* shortcut is pressed and the call returns success, or no keyword is found
\* and it returns the error.
Fallback ==
    /\ gui_executor.pc = "fallback"
    /\ LET key == Shortcut(gui_executor.instruction) IN
       gui_executor' =
          IF key # None
          THEN [gui_executor EXCEPT !.pc = "returned",
                                    !.event = "fallback",
                                    !.keys = Append(@, <<"cmd", key>>),
                                    !.success = TRUE,
                                    !.fallback = key]
          ELSE [gui_executor EXCEPT !.pc = "returned",
                                    !.event = "fallback",
                                    !.error = "no_fallback_available"]
    /\ UNCHANGED GuiOthers

\* _fallback_keyboard_action, lines 198-199: the keyboard raises.
FallbackRaises ==
    /\ gui_executor.pc = "fallback"
    /\ Shortcut(gui_executor.instruction) # None
    /\ gui_executor' = [gui_executor EXCEPT !.pc = "returned",
                                            !.event = "raised",
                                            !.error = "fallback_failed"]
    /\ UNCHANGED GuiOthers

GuiNext ==
    \/ LoopEnds
    \/ CaptureBefore
    \/ CaptureRaises
    \/ \E targets \in TargetLists : PredictReturns(targets)
    \/ PredictRaises
    \/ CaptureVerify
    \/ \E v_targets \in TargetLists : VerifyReturns(v_targets)
    \/ VerifyRaises
    \/ CaptureAfter
    \/ Fallback
    \/ FallbackRaises

GuiSpec == GuiInit /\ [][GuiNext]_vars

\* execute runs to its return: the calls it makes to the screenshot source,
\* the vision service, the mouse and the keyboard all come back, with a
\* value or an exception.
GuiFairSpec == GuiSpec /\ WF_vars(GuiNext)

\* ----------------------------------------- main.py: create_lock, cleanup_lock
\* The processes that run main, by pid. Pid 0 is a process that has died
\* and may have left its lock file behind.
Instances == 1 .. MaxInstances

\* LOCK_FILE does not exist. An existing file is [inode, content]: the
\* inode says which open() created it, content is the text in it, << >>
\* when empty and <<pid>> after str(os.getpid()) was written.
NoFile == [inode |-> None]

\* main, lines 68-70, in every process: LOCK_FILE is absent, left behind by
\* the dead process, or left behind empty; each process is at the first
\* line of create_lock and holds no open file.
LockInit ==
    /\ ContextManagerInit
    /\ max_workers = max_parallel_tasks
    /\ task_parser = NoCall
    /\ shell_executor = NoCall
    /\ command_router = NoCall
    /\ gui_executor = NoCall
    /\ lock_file \in {[pc |-> "main", LOCK_FILE |-> file,
                       at |-> [p \in Instances |-> "exists"],
                       handle |-> [p \in Instances |-> None]] :
                        file \in {NoFile,
                                  [inode |-> 0, content |-> <<0>>],
                                  [inode |-> 0, content |-> << >>]}}

LockOthers == <<orchestratorVars, task_parser, shell_executor, command_router, gui_executor>>

\* os.kill(pid, 0), line 46: no OSError for a process that has started and
\* has not exited.
Alive(pid) == pid \in Instances /\ lock_file.at[pid] # "exited"

\* create_lock, line 41: if LOCK_FILE.exists().
Exists(p) ==
    /\ lock_file.at[p] = "exists"
    /\ lock_file' = [lock_file EXCEPT
                        !.at[p] = IF lock_file.LOCK_FILE # NoFile THEN "read" ELSE "open"]
    /\ UNCHANGED LockOthers

\* create_lock, lines 42-52: the file is opened and read, the pid parsed
\* and probed. A file that is gone by now (FileNotFoundError, an OSError),
\* an empty file (ValueError) and the pid of a dead process lead to the
\* except branch; the pid of a live process makes create_lock return False.
ReadPid(p) ==
    /\ lock_file.at[p] = "read"
    /\ lock_file' = [lock_file EXCEPT
                        !.at[p] =
                            IF lock_file.LOCK_FILE = NoFile THEN "unlink"
                            ELSE IF lock_file.LOCK_FILE.content = << >> THEN "unlink"
                            ELSE IF Alive(lock_file.LOCK_FILE.content[1]) THEN "refused"
                            ELSE "unlink"]
    /\ UNCHANGED LockOthers

\* create_lock, line 53: LOCK_FILE.unlink() in the except branch removes
\* whatever file is there now; without a file it raises FileNotFoundError
\* out of create_lock and the process ends.
UnlinkStale(p) ==
    /\ lock_file.at[p] = "unlink"
    /\ lock_file' = IF lock_file.LOCK_FILE = NoFile
                    THEN [lock_file EXCEPT !.at[p] = "exited"]
                    ELSE [lock_file EXCEPT !.at[p] = "open", !.LOCK_FILE = NoFile]
    /\ UNCHANGED LockOthers

\* create_lock, line 56: open(LOCK_FILE, 'w') creates the file or empties
\* the one that is there.
OpenWrite(p) ==
    /\ lock_file.at[p] = "open"
    /\ lock_file' = [lock_file EXCEPT
                        !.at[p] = "write",
                        !.handle[p] = IF lock_file.LOCK_FILE = NoFile THEN p
                                      ELSE lock_file.LOCK_FILE.inode,
                        !.LOCK_FILE = IF lock_file.LOCK_FILE = NoFile
                                      THEN [inode |-> p, content |-> << >>]
                                      ELSE [lock_file.LOCK_FILE EXCEPT !.content = << >>]]
    /\ UNCHANGED LockOthers

\* create_lock, lines 57-61: the pid is written to the file that was
\* opened (which LOCK_FILE may no longer name), cleanup_lock is registered
\* and create_lock returns True.
WritePid(p) ==
    /\ lock_file.at[p] = "write"
    /\ lock_file' = [lock_file EXCEPT
                        !.at[p] = "running",
                        !.handle[p] = None,
                        !.LOCK_FILE = IF /\ lock_file.LOCK_FILE # NoFile
                                         /\ lock_file.LOCK_FILE.inode = lock_file.handle[p]
                                      THEN [lock_file.LOCK_FILE EXCEPT !.content = <<p>>]
                                      ELSE lock_file.LOCK_FILE]
    /\ UNCHANGED LockOthers

\* main, line 71: the process that got False returns 1 and ends; no
\* cleanup is registered.
Refused(p) ==
    /\ lock_file.at[p] = "refused"
    /\ lock_file' = [lock_file EXCEPT !.at[p] = "exited"]
    /\ UNCHANGED LockOthers

\* cleanup_lock, line 65, at the exit of an instance: if LOCK_FILE.exists().
CleanupExists(p) ==
    /\ lock_file.at[p] = "running"
    /\ lock_file' = [lock_file EXCEPT
                        !.at[p] = IF lock_file.LOCK_FILE # NoFile THEN "cleanup"
                                  ELSE "exited"]
    /\ UNCHANGED LockOthers

\* cleanup_lock, line 66: LOCK_FILE.unlink() removes the file that is
\* there now, whoever wrote it; the process ends.
CleanupUnlink(p) ==
    /\ lock_file.at[p] = "cleanup"
    /\ lock_file' = [lock_file EXCEPT !.at[p] = "exited", !.LOCK_FILE = NoFile]
    /\ UNCHANGED LockOthers

LockNext ==
    \E p \in Instances :
        \/ Exists(p)
        \/ ReadPid(p)
        \/ UnlinkStale(p)
        \/ OpenWrite(p)
        \/ WritePid(p)
        \/ Refused(p)
        \/ CleanupExists(p)
        \/ CleanupUnlink(p)

LockSpec == LockInit /\ [][LockNext]_vars

\* ------------------------------------------------- get_execution_summary
\* The entries of self.executions.
Entries == {i \in TaskIds : executions[i] # NoExec}
CountStatus(st) == Cardinality({i \in Entries : executions[i].status = st})

\* completed_at - started_at of the entry of task i: the time its worker
\* took, a positive number. The times are powers of two, so that a sum of
\* them tells which entries it counts.
Elapsed(i) == 2 ^ i

RECURSIVE SumElapsed(_)
SumElapsed(ids) ==
    IF ids = {} THEN 0
    ELSE LET i == CHOOSE j \in ids : TRUE IN Elapsed(i) + SumElapsed(ids \ {i})

\* get_execution_summary, lines 169-174: the sum over the entries that have
\* both time stamps.
TotalTime ==
    SumElapsed({i \in Entries : executions[i].completed_at /\ executions[i].started_at})

\* get_execution_summary, lines 161-177: the five counts, and with a
\* completed entry the key total_execution_time.
GetExecutionSummary ==
    LET counts == [total_tasks |-> Cardinality(Entries),
                   completed |-> CountStatus(COMPLETED),
                   failed |-> CountStatus(FAILED),
                   running |-> CountStatus(RUNNING),
                   pending |-> CountStatus(PENDING)]
    IN  IF counts.completed > 0
        THEN [total_tasks |-> counts.total_tasks, completed |-> counts.completed,
              failed |-> counts.failed, running |-> counts.running,
              pending |-> counts.pending, total_execution_time |-> TotalTime]
        ELSE counts

\* ---------------------------------------------------------------- claims
Terminal == {COMPLETED, FAILED}
\* The ids of the batch of the current (or last) call.
BatchIds == {tasks[k].id : k \in 1 .. Len(tasks)}
TaskOf(i) == tasks[i + 1]
\* The work item of task i in the current call.
Item(i) == <<ncalls, i>>
InCall == opc # "idle"
InGui(w) == wpc[w] = "act" /\ wpath[w] = "gui"
InShell(w) == wpc[w] = "act" /\ wpath[w] = "shell"

\* C1: every call of execute_tasks returns, whatever batch the parser
\* built, when every action a worker calls terminates.
C1_ExecuteTasksReturns == InCall ~> (opc = "idle")

\* C2: no step makes a task of the batch RUNNING while one of its
\* dependencies is not COMPLETED or FAILED.
C2_RunsAfterDependencies ==
    [][\A i \in BatchIds :
          (/\ InCall
           /\ executions[i].status # RUNNING
           /\ executions'[i].status = RUNNING)
          => \A d \in TaskOf(i).depends_on : executions[d].status \in Terminal]_vars

\* C3: once every dependency of a task has finished executing (returned or
\* raised), the task is eventually submitted and started.
C3_DependentEventuallyRuns ==
    \A i \in TaskIds :
        (/\ InCall
         /\ i \in BatchIds
         /\ TaskOf(i).depends_on # {}
         /\ \A d \in TaskOf(i).depends_on : wpc[Item(d)] = "done")
        ~> (ncalls > 0 /\ wpc[Item(i)] \in {"route", "lockwait", "act", "done"})

\* C4: at most one worker is inside gui_executor.execute at any time.
C4_GuiMutualExclusion == Cardinality({w \in Workers : InGui(w)}) <= 1

\* C4's case: one worker inside gui_executor.execute while another, routed
\* to gui as well, waits for the lock.
C4_Witness ==
    \E w1, w2 \in Workers :
        /\ w1 # w2
        /\ InGui(w1)
        /\ gui_lock = w1
        /\ wpc[w2] = "lockwait"

\* C5: no step takes a TaskExecution from PENDING to COMPLETED or FAILED.
C5_TerminalOnlyFromRunning ==
    [][\A i \in TaskIds :
          (/\ executions[i].status = PENDING
           /\ executions'[i] # NoExec
           /\ executions'[i].call = executions[i].call)
          => executions'[i].status \notin Terminal]_vars

\* C6: when a task's execution raises, every other task of the batch is
\* still submitted, run and finalized, and a worker that ends while holding
\* the GUI lock releases it.
C6_FailureIsolated ==
    /\ \A i \in TaskIds :
          (InCall /\ i \in BatchIds /\ wfut[Item(i)].kind = "exception")
          ~> (\A j \in BatchIds : executions[j].status \in Terminal)
    /\ [][\A w \in Workers :
            (gui_lock = w /\ wpc'[w] = "done") => gui_lock' = NoWorker]_vars

\* C7: at the step execute_tasks returns, every task of the batch is
\* COMPLETED with a result or FAILED with an error.
C7_AllFinalAtReturn ==
    [][(opc = "collect" /\ opc' = "idle")
          => \A i \in BatchIds :
                /\ executions'[i].status \in Terminal
                /\ executions'[i].status = COMPLETED => executions'[i].result # NoResult
                /\ executions'[i].status = FAILED => executions'[i].error # None]_vars

\* C8: after a call has returned, self.executions holds exactly the tasks of
\* that call's batch, and total_tasks is the size of the batch.
C8_OnlyCurrentBatch ==
    (ncalls > 0 /\ opc = "idle")
        => /\ Entries = BatchIds
           /\ GetExecutionSummary.total_tasks = Len(tasks)

\* C9: a worker routed to shell goes straight into shell_executor.run and
\* holds no lock while it is there, so shell tasks do not wait for each
\* other or for a GUI task.
C9_ShellRunsUnlocked ==
    \A w \in Workers :
        wpath[w] = "shell" => (wpc[w] = "act" /\ gui_lock # w)

\* C9's case: with the default pool of three threads, the three independent
\* tasks of one batch are inside shell_executor.run at the same time.
C9_Witness ==
    /\ max_workers = max_parallel_tasks
    /\ Len(tasks) = max_parallel_tasks
    /\ \A i \in BatchIds : TaskOf(i).depends_on = {} /\ InShell(Item(i))

\* C10: at most max_parallel_tasks work items (max_workers of them) are
\* past their start and not yet finished.
C10_PoolBound ==
    /\ Cardinality(Busy) <= max_workers
    /\ Cardinality({w \in Workers : wpc[w] = "act"}) <= max_parallel_tasks

\* C10's case: every thread of the default pool of three is executing an
\* action and a submitted task waits in the queue.
C10_Witness ==
    /\ max_workers = max_parallel_tasks
    /\ Cardinality({w \in Workers : wpc[w] = "act"}) = max_workers
    /\ work_queue # << >>

\* ------------------------------------------------ claims on TaskParser
ParseDone == task_parser.pc = "returned"
\* Positions of the returned list.
Returned == 1 .. Len(task_parser.tasks)
ReturnedIds == {task_parser.tasks[i].id : i \in Returned}
\* The connector matches of the parsed instruction.
Found == connectors_found(task_parser.instruction)
OneSequentialConnector == Len(Found) = 1 /\ Found[1].task_type = SEQUENTIAL
SecondDependsOnFirst ==
    /\ Len(task_parser.tasks) = 2
    /\ task_parser.tasks[2].depends_on = {task_parser.tasks[1].id}

\* C11: an instruction in which no connector pattern matches is returned as
\* exactly one task, PARALLEL, with an empty depends_on.
C11_NoConnectorOneTask ==
    (ParseDone /\ Found = << >>)
        => /\ Len(task_parser.tasks) = 1
           /\ task_parser.tasks[1].task_type = PARALLEL
           /\ task_parser.tasks[1].depends_on = {}

\* C11's case: an instruction of several words, none of them a connector,
\* has been parsed.
C11_Witness ==
    /\ ParseDone
    /\ Found = << >>
    /\ Len(task_parser.instruction) >= 2

\* C12 as stated: an instruction with exactly one connector match, a
\* sequential one, is returned as exactly two tasks, the second depending
\* on the first.
C12_OneSequentialTwoTasks ==
    (ParseDone /\ OneSequentialConnector) => SecondDependsOnFirst

\* C12 amended: the same, for an instruction that has text on both sides of
\* its one sequential connector.
C12_TextThenText ==
    (/\ ParseDone
     /\ OneSequentialConnector
     /\ Found[1].start > 0
     /\ Found[1].end < TextLen(task_parser.instruction))
        => SecondDependsOnFirst

\* C12's case: text, one sequential connector of several words, text.
C12_Witness ==
    /\ ParseDone
    /\ OneSequentialConnector
    /\ Found[1].start > 0
    /\ Found[1].end < TextLen(task_parser.instruction)
    /\ Found[1].end - Found[1].start > 1

\* C13: when every connector match of the instruction is a parallel one,
\* every returned task has an empty depends_on.
C13_ParallelOnlyIndependent ==
    (ParseDone /\ \A k \in 1 .. Len(Found) : Found[k].task_type = PARALLEL)
        => \A i \in Returned : task_parser.tasks[i].depends_on = {}

\* C13's case: three tasks cut apart by two parallel connectors.
C13_Witness ==
    /\ ParseDone
    /\ Len(Found) = 2
    /\ \A k \in 1 .. Len(Found) : Found[k].task_type = PARALLEL
    /\ Len(task_parser.tasks) = 3

\* C14: every depends_on names only ids of the returned list, never the
\* task's own id, and only tasks that stand earlier in the list.
C14_DependenciesPointBack ==
    ParseDone
        => \A i \in Returned :
              \A d \in task_parser.tasks[i].depends_on :
                 /\ d \in ReturnedIds
                 /\ d # task_parser.tasks[i].id
                 /\ \E j \in Returned : j < i /\ task_parser.tasks[j].id = d

\* C14's case: a list of three tasks in which the second and the third
\* each have a dependency.
C14_Witness ==
    /\ ParseDone
    /\ Len(task_parser.tasks) = 3
    /\ \A i \in {2, 3} : task_parser.tasks[i].depends_on # {}

\* ---------------------------------- claims on SafetyManager, ShellExecutor
Batch == shell_executor.commands
\* The gate of the call has prompted.
Prompted == shell_executor.pc = "prompt" \/ shell_executor.answer # NoAnswer
\* The command's joined, lowercased text is blocked or matches a pattern.
BlockedOrDangerous(cmd) ==
    \/ CmdStr(cmd) \in blocked_commands
    \/ \E n \in 1 .. Len(dangerous_patterns) : Search(dangerous_patterns[n], CmdStr(cmd))
SomeDangerous(commands) ==
    \E k \in 1 .. Len(commands) : BlockedOrDangerous(commands[k])
\* The user has typed a line that, stripped and lowercased, is yes.
AnsweredYes ==
    /\ shell_executor.answer.kind = "line"
    /\ LowerStr(Strip(shell_executor.answer.line)) = <<"y", "e", "s">>
\* The user has typed another line, or input() has raised.
Declined == shell_executor.answer # NoAnswer /\ ~AnsweredYes

\* C15: requires_confirmation is true exactly when some command of the
\* batch is blocked or dangerous, and an interactive call prompts exactly
\* then; it is true of rm -rf /, false of ls -la, and stays true when a
\* command is added at either end of the batch.
C15_RequiresConfirmation ==
    /\ shell_executor.pc = "gate"
          => /\ RequiresConfirmation(Batch) <=> SomeDangerous(Batch)
             /\ \A extra \in Commands :
                   RequiresConfirmation(Batch)
                      => /\ RequiresConfirmation(Append(Batch, extra))
                         /\ RequiresConfirmation(<<extra>> \o Batch)
    /\ (shell_executor.interactive /\ shell_executor.pc # "gate")
          => (Prompted <=> SomeDangerous(Batch))
    /\ RequiresConfirmation(<< << <<"r", "m">>, <<"-", "r", "f">>, <<"/">> >> >>)
    /\ ~RequiresConfirmation(<< << <<"l", "s">>, <<"-", "l", "a">> >> >>)

\* C15's case: the gate has prompted for a batch whose first command is
\* safe and whose second matches a pattern without being blocked.
C15_Witness ==
    /\ shell_executor.pc = "prompt"
    /\ Len(Batch) = 2
    /\ ~BlockedOrDangerous(Batch[1])
    /\ BlockedOrDangerous(Batch[2])
    /\ CmdStr(Batch[2]) \notin blocked_commands

\* C16 as stated: on a batch that requires confirmation, every response
\* other than the very line yes cancels the batch.
C16_OnlyExactYes ==
    (/\ SomeDangerous(Batch)
     /\ shell_executor.answer.kind = "line"
     /\ shell_executor.answer.line # <<"y", "e", "s">>)
        => /\ shell_executor.ran = << >>
           /\ shell_executor.pc = "returned" => shell_executor.ret = Cancelled

\* C16 amended: an interactive call on a batch that requires confirmation
\* hands a command to subprocess.run only after a response that is yes once
\* stripped and lowercased; such a response lets the batch run, and every
\* other response cancels it.
C16_OnlyNormalisedYes ==
    (shell_executor.interactive /\ SomeDangerous(Batch))
        => /\ shell_executor.ran # << >> => AnsweredYes
           /\ AnsweredYes => shell_executor.ret # Cancelled
           /\ Declined => shell_executor.ret = Cancelled
           /\ shell_executor.pc = "loop" => AnsweredYes

\* C16's case: a dangerous command has been handed to subprocess.run after
\* a yes in capitals or with whitespace around it.
C16_Witness ==
    /\ shell_executor.interactive
    /\ AnsweredYes
    /\ shell_executor.answer.line # <<"y", "e", "s">>
    /\ \E k \in 1 .. Len(shell_executor.ran) : BlockedOrDangerous(shell_executor.ran[k])

\* C17: after a declined confirmation the call has returned
\* (False, {results: [], error: "User cancelled dangerous operation"}) and
\* no command of the batch, safe or not, has been run or recorded.
C17_DeclinedRunsNothing ==
    Declined
        => /\ shell_executor.pc = "returned"
           /\ shell_executor.ret.ok = FALSE
           /\ shell_executor.ret.results = << >>
           /\ shell_executor.ret.error = "User cancelled dangerous operation"
           /\ shell_executor.ran = << >>
           /\ shell_executor.results = << >>

\* C17's case: end-of-input at the prompt for a batch of a safe and a
\* dangerous command.
C17_Witness ==
    /\ shell_executor.answer = Raised("EOFError")
    /\ Len(Batch) = 2
    /\ \E k \in 1 .. 2 : ~BlockedOrDangerous(Batch[k]) /\ Batch[k] # << >>
    /\ \E k \in 1 .. 2 : BlockedOrDangerous(Batch[k])

\* ----------------------------------------------- claims on CommandRouter
RouteDone == command_router.pc = "returned"
\* The instruction as the lookups see it.
Low == Strip(LowerStr(command_router.instruction))
\* The aliases, apps and workflows of the library that match the instruction.
AliasHits ==
    {n \in 1 .. Len(command_router.library.aliases) :
        AliasMatches(command_router.library.aliases[n].key, Low)}
AppHits ==
    {n \in 1 .. Len(command_router.library.apps) :
        Contains(Low, LowerStr(command_router.library.apps[n].key))}
WorkflowHits ==
    {n \in 1 .. Len(command_router.library.workflows) :
        WorkflowMatches(command_router.library.workflows[n].key, Low)}
LibraryHit == AliasHits # {} \/ AppHits # {} \/ WorkflowHits # {}
GuiVerb == \E k \in gui_keywords : Contains(Low, k)
\* The route call has gone through the generative fallback.
Generative == command_router.calls > 0
\* The lowercased tokens of a command.
LowerTokens(cmd) == {LowerStr(cmd[n]) : n \in 1 .. Len(cmd)}

\* C18: route decides in the order library lookup, GUI verb, generator,
\* dictation. A matching alias gives shell with the one command
\* ["open", url], GUI verb or not; any library match gives shell without a
\* call of the generator; a GUI verb without library match gives gui
\* without a call of the generator; otherwise the generator is called once
\* and the result is shell with its commands when they are a non-empty
\* list and dictation when the list is empty or the call raised.
C18_ResolutionOrder ==
    /\ RouteDone =>
          /\ AliasHits # {} =>
                \E n \in AliasHits :
                   /\ \A m \in AliasHits : n <= m
                   /\ command_router.ret
                         = [path |-> "shell",
                            commands |-> << << <<"o", "p", "e", "n">>,
                                               command_router.library.aliases[n].url >> >>]
          /\ LibraryHit => command_router.ret.path = "shell" /\ ~Generative
          /\ (~LibraryHit /\ GuiVerb) => command_router.ret = [path |-> "gui"] /\ ~Generative
          /\ (~LibraryHit /\ ~GuiVerb) =>
                /\ command_router.calls = 1
                /\ IF /\ command_router.generated.kind = "returned"
                      /\ command_router.generated.commands # << >>
                   THEN command_router.ret
                           = [path |-> "shell",
                              commands |-> command_router.generated.commands]
                   ELSE command_router.ret = [path |-> "dictation"]
    /\ command_router.pc = "generate" => (~LibraryHit /\ ~GuiVerb)

\* C18's case: an instruction with a GUI verb that matches an alias has
\* been routed to shell.
C18_Witness ==
    /\ RouteDone
    /\ AliasHits # {}
    /\ GuiVerb
    /\ command_router.ret.path = "shell"

\* C19: no command returned on the generative path has a token that is, in
\* lower case, rm, shutdown, reboot, kill or killall, nor the tokens rm and
\* -rf together.
C19_GeneratedCommandsFiltered ==
    (RouteDone /\ Generative /\ command_router.ret.path = "shell")
        => \A k \in 1 .. Len(command_router.ret.commands) :
              LET toks == LowerTokens(command_router.ret.commands[k]) IN
              /\ toks \cap {<<"r", "m">>, <<"s", "h", "u", "t", "d", "o", "w", "n">>,
                            <<"r", "e", "b", "o", "o", "t">>, <<"k", "i", "l", "l">>,
                            <<"k", "i", "l", "l", "a", "l", "l">>} = {}
              /\ ~({<<"r", "m">>, <<"-", "r", "f">>} \subseteq toks)

\* C19's case: the model answered rm -rf / in capitals with another
\* command, and route returned shell with the other command alone.
C19_Witness ==
    /\ RouteDone
    /\ Generative
    /\ command_router.answered.kind = "json"
    /\ \E k \in 1 .. Len(command_router.answered.commands) :
          command_router.answered.commands[k]
             = << <<"R", "M">>, <<"-", "R", "F">>, <<"/">> >>
    /\ command_router.ret.path = "shell"
    /\ Len(command_router.ret.commands) = 1


\* ----------------------------------------------- claims on GUIExecutor.execute
\* The call of execute has returned.
GuiDone == gui_executor.pc = "returned"

\* On attempt 0 the prediction's best candidate had a confidence of at least
\* 0.5 and the verification query returned a target within verify_radius
\* of it.
FirstAttemptConfirmed == gui_executor.confirmed # NoPoint

\* C20: if on attempt 0 the vision service returns a best candidate of
\* confidence at least 0.5 and the verification query returns a target
\* within verify_radius of it, execute clicks once at that candidate and
\* returns success = true, retries_used = 0 and an empty error.
C20_FirstAttemptSucceeds ==
    GuiDone /\ FirstAttemptConfirmed =>
        /\ gui_executor.clicks = <<gui_executor.confirmed>>
        /\ gui_executor.success
        /\ gui_executor.retries_used = 0
        /\ gui_executor.error = ""

\* The fallback was taken: the result is the one _fallback_keyboard_action
\* made.
FallbackTaken ==
    \/ gui_executor.event = "fallback"
    \/ gui_executor.event = "raised" /\ gui_executor.error = "fallback_failed"

\* The prediction of every attempt returned no targets.
NoTargetsEveryAttempt ==
    /\ gui_executor.max_retries >= 1
    /\ gui_executor.empties = gui_executor.max_retries

\* The instruction holds none of compose, new, save, copy, paste, in
\* letters of either case.
NoShortcutKeyword ==
    \A word \in {<<"c", "o", "m", "p", "o", "s", "e">>, <<"n", "e", "w">>,
                 <<"s", "a", "v", "e">>, <<"c", "o", "p", "y">>,
                 <<"p", "a", "s", "t", "e">>} :
        ~Contains(LowerStr(gui_executor.instruction), word)

\* C21: if the vision service returns no targets on every attempt, execute
\* takes the keyboard-shortcut fallback after the last attempt; for an
\* instruction with none of the shortcut keywords it returns
\* success = false with the error no_fallback_available and makes no click
\* and no key press.
C21_NoTargetsFallsBack ==
    GuiDone /\ NoTargetsEveryAttempt =>
        /\ FallbackTaken
        /\ gui_executor.attempt = gui_executor.max_retries - 1
        /\ gui_executor.clicks = << >>
        /\ NoShortcutKeyword =>
              /\ ~gui_executor.success
              /\ gui_executor.error = "no_fallback_available"
              /\ gui_executor.keys = << >>

C21_Witness ==
    /\ GuiDone
    /\ NoTargetsEveryAttempt
    /\ gui_executor.max_retries = max_retries
    /\ NoShortcutKeyword
    /\ gui_executor.error = "no_fallback_available"

\* C22 as stated: the keyboard-shortcut fallback is entered only in
\* executions where the prediction of every attempt returned zero
\* candidates; an execution in which some earlier attempt produced a
\* candidate never reaches the fallback.
C22_OnlyWithoutCandidates ==
    gui_executor.pc = "fallback" => ~gui_executor.candidates

\* C22, amended: the keyboard-shortcut fallback is entered only when the
\* prediction of the last attempt returned zero candidates; an execution
\* whose last attempt produced a candidate never reaches the fallback.
C22_OnlyAfterLastEmpty ==
    /\ gui_executor.pc = "fallback" =>
          /\ gui_executor.attempt = gui_executor.max_retries - 1
          /\ gui_executor.event = "none"
    /\ GuiDone /\ FallbackTaken =>
          /\ gui_executor.attempt = gui_executor.max_retries - 1
          /\ gui_executor.empties >= 1

C22_Witness ==
    /\ gui_executor.pc = "fallback"
    /\ gui_executor.candidates
    /\ gui_executor.attempt = 2

\* C23: on every attempt that is not the final one, if the verification
\* query finds no target within verify_radius of the chosen point (also
\* when it returns no targets at all), no click happens on that attempt
\* and the loop retries from capture.
C23_NotNearRetries ==
    [][gui_executor.pc = "verify"
       /\ gui_executor.attempt < gui_executor.max_retries - 1
       /\ gui_executor'.event \in {"away", "empty"}
       => /\ gui_executor'.clicks = gui_executor.clicks
          /\ gui_executor'.pc = "capture"
          /\ gui_executor'.attempt = gui_executor.attempt + 1]_vars

\* The step is an exception raised in an attempt of the loop: by a
\* screenshot, by the prediction or by the verification.
RaisedInAttempt ==
    /\ gui_executor.pc \in {"capture", "predict", "verify_capture", "verify",
                            "after_capture"}
    /\ gui_executor'.event = "raised"

\* C24: an exception raised during an attempt of execute that is not the
\* final one is swallowed and the next attempt runs; one raised during
\* the final attempt ends execute with success = false and the text of
\* the exception as error; execute itself never raises.
C24_ExceptionsHandled ==
    [][RaisedInAttempt =>
          IF gui_executor.attempt < gui_executor.max_retries - 1
          THEN /\ gui_executor'.pc = "capture"
               /\ gui_executor'.attempt = gui_executor.attempt + 1
               /\ gui_executor'.error = gui_executor.error
               /\ gui_executor'.success = gui_executor.success
          ELSE /\ gui_executor'.pc = "returned"
               /\ ~gui_executor'.success
               /\ gui_executor'.error = ErrorText]_vars

C24_Witness ==
    /\ GuiDone
    /\ gui_executor.event = "raised"
    /\ gui_executor.error = ErrorText
    /\ gui_executor.attempt = 2
    /\ gui_executor.predictions = 0

\* C25: in the summary the five counts are consistent (total is the sum of
\* the other four) and total_execution_time is the sum of
\* completed_at - started_at over exactly the tasks whose status is
\* completed, the failed ones left out. The summary is taken when a call
\* has returned.
C25_SummaryConsistent ==
    ncalls > 0 /\ opc = "idle" =>
        LET summary == GetExecutionSummary IN
        /\ summary.total_tasks =
              summary.completed + summary.failed + summary.running + summary.pending
        /\ summary.completed > 0 =>
              summary.total_execution_time =
                  SumElapsed({i \in Entries : executions[i].status = COMPLETED})

\* C26: once the status of a TaskExecution is COMPLETED or FAILED it never
\* changes again: a worker that starts or finishes after the orchestrator
\* has marked its task failed on timeout does not move the status back to
\* RUNNING.
C26_TerminalIsFinal ==
    [][\A i \in TaskIds :
          (/\ executions[i] # NoExec
           /\ executions[i].status \in Terminal
           /\ executions'[i] # NoExec
           /\ executions'[i].call = executions[i].call)
          => executions'[i].status = executions[i].status]_vars

\* C27: one call of execute makes at most one mouse click over all its
\* attempts, whatever the vision service and the screenshot source return
\* or raise.
C27_AtMostOneClick == Len(gui_executor.clicks) <= 1

\* C28: a best candidate of a confidence below 0.5 is rejected without
\* verification or click on the first two attempts, and on the final
\* attempt it is accepted rather than given up, for every attempt cap of
\* at least 1. (An attempt that is the final one is read as final, also
\* when it is the first or the second.)
C28_WeakCandidate ==
    [][gui_executor.pc = "predict" /\ gui_executor'.event = "weak" =>
          IF gui_executor.attempt = gui_executor.max_retries - 1
          THEN /\ gui_executor'.pc = "verify_capture"
               /\ gui_executor'.point = PointOf(gui_executor'.target)
          ELSE gui_executor.attempt < 2 =>
                  /\ gui_executor'.pc = "capture"
                  /\ gui_executor'.attempt = gui_executor.attempt + 1
                  /\ gui_executor'.verifications = gui_executor.verifications
                  /\ gui_executor'.clicks = gui_executor.clicks]_vars

\* The verification's answer holds the point p and no point closer to the
\* chosen point.
ClosestToChosen(p, v_targets, chosen) ==
    /\ \E n \in 1 .. Len(v_targets) : v_targets[n] = p
    /\ \A n \in 1 .. Len(v_targets) : Dist2(p, chosen) <= Dist2(v_targets[n], chosen)

\* C29: on the final attempt, if the verification query returns targets
\* and none within verify_radius of the chosen point, the click is made at
\* the verification target closest to the chosen point, not at the chosen
\* point, and execute returns success.
C29_SnapsToClosest ==
    [][/\ (/\ gui_executor.pc = "verify"
           /\ gui_executor.attempt = gui_executor.max_retries - 1
           /\ gui_executor'.event = "away")
          => /\ gui_executor'.pc = "after_capture"
             /\ Len(gui_executor'.clicks) = Len(gui_executor.clicks) + 1
             /\ LET at == gui_executor'.clicks[Len(gui_executor'.clicks)] IN
                /\ ClosestToChosen(at, gui_executor'.v_targets, gui_executor.point)
                /\ at # gui_executor.point
       /\ (/\ gui_executor.pc = "after_capture"
           /\ gui_executor.attempt = gui_executor.max_retries - 1
           /\ gui_executor.event = "away")
          => /\ gui_executor'.pc = "returned"
             /\ gui_executor'.success]_vars

\* C30: execute always returns, after at most max_retries attempts, at
\* most max_retries prediction queries and at most max_retries
\* verification queries, whatever the vision service answers or raises.
C30_BoundedRetries ==
    /\ [](/\ gui_executor.attempt <= gui_executor.max_retries
          /\ gui_executor.pc \notin {"capture", "returned"}
                => gui_executor.attempt < gui_executor.max_retries
          /\ gui_executor.predictions <= gui_executor.max_retries
          /\ gui_executor.verifications <= gui_executor.max_retries)
    /\ <>GuiDone

C30_Witness ==
    /\ GuiDone
    /\ gui_executor.max_retries = max_retries
    /\ gui_executor.predictions = max_retries
    /\ gui_executor.verifications = max_retries

\* C31: the first task parse returns is PARALLEL, for every instruction,
\* also one that begins with a connector.
C31_FirstTaskParallel ==
    ParseDone => /\ Len(task_parser.tasks) >= 1
                 /\ task_parser.tasks[1].task_type = PARALLEL

\* C32: a task at a position after the first depends on exactly the task
\* before it when it is SEQUENTIAL and on nothing when it is PARALLEL,
\* also when an earlier task is SEQUENTIAL.
C32_DependsOnByKind ==
    ParseDone =>
        \A i \in Returned :
            i >= 2 =>
               /\ task_parser.tasks[i].task_type = SEQUENTIAL
                     => task_parser.tasks[i].depends_on = {task_parser.tasks[i - 1].id}
               /\ task_parser.tasks[i].task_type = PARALLEL
                     => task_parser.tasks[i].depends_on = {}

\* C32's case: a PARALLEL task without dependencies right after a
\* SEQUENTIAL task that depends on the first.
C32_Witness ==
    /\ ParseDone
    /\ Len(task_parser.tasks) = 3
    /\ task_parser.tasks[2].task_type = SEQUENTIAL
    /\ task_parser.tasks[2].depends_on = {task_parser.tasks[1].id}
    /\ task_parser.tasks[3].task_type = PARALLEL
    /\ task_parser.tasks[3].depends_on = {}

\* Instructions of the shape  x c x c ... x  with one-word connectors c:
\* task i and task i + 1 are separated by the word at position 2 * i.
Alternating ==
    /\ Len(task_parser.instruction) >= 3
    /\ Len(task_parser.instruction) % 2 = 1
    /\ \A k \in 1 .. Len(task_parser.instruction) :
          IF k % 2 = 1 THEN task_parser.instruction[k] = "x"
          ELSE Lower(task_parser.instruction[k]) \in {"and", "then"}
SeparatorIsSequential(i) == Lower(task_parser.instruction[2 * (i - 1)]) = "then"

\* C33: task i depends on task i-1 exactly when the connector between
\* their two segments is a sequential one, whatever connectors appear
\* elsewhere in the instruction.
C33_DependsIffSeparatorSequential ==
    (ParseDone /\ Alternating) =>
        /\ 2 * Len(task_parser.tasks) = Len(task_parser.instruction) + 1
        /\ \A i \in Returned :
              i >= 2 =>
                 (task_parser.tasks[i].depends_on = {task_parser.tasks[i - 1].id}
                     <=> SeparatorIsSequential(i))

\* Word k of the instruction lies inside a connector match.
Covered(k) ==
    \E n \in 1 .. Len(Found) :
        /\ Found[n].start <= WordStart(k)
        /\ WordEnd(k) <= Found[n].end

\* C34: when the instruction holds a connector, every returned task
\* instruction is non-empty and is made of words of the instruction that no
\* connector match covers, also when matches overlap or abut and when the
\* instruction is nothing but connectors.
C34_ConnectorsCutOut ==
    (ParseDone /\ Found # << >>) =>
        \A i \in Returned :
            /\ task_parser.tasks[i].instruction # << >>
            /\ \A w \in 1 .. Len(task_parser.tasks[i].instruction) :
                  \E k \in 1 .. Len(task_parser.instruction) :
                      /\ task_parser.instruction[k] = task_parser.tasks[i].instruction[w]
                      /\ ~Covered(k)

\* The words of workflow n's key phrase, and those of them that occur in
\* the instruction.
KeyPhrase(n) ==
    SplitWords(ReplaceChar(LowerStr(command_router.library.workflows[n].key), "_", " "))
PresentWords(n) == {k \in 1 .. Len(KeyPhrase(n)) : Contains(Low, KeyPhrase(n)[k])}
\* route has returned the commands of workflow n of the library.
MatchedWorkflow(n) ==
    /\ RouteDone /\ ~Generative
    /\ AliasHits = {} /\ AppHits = {}
    /\ n \in WorkflowHits /\ \A m \in WorkflowHits : n <= m
    /\ command_router.ret = ShellPath(command_router.library.workflows[n].commands)

\* C35: a workflow of the library matches only when at least half of the
\* words of its key phrase occur in the instruction; a key of three words
\* needs two of them.
C35_HalfOfKeyWords ==
    \A n \in 1 .. Len(command_router.library.workflows) :
        MatchedWorkflow(n) => 2 * Cardinality(PresentWords(n)) >= Len(KeyPhrase(n))

\* C36: no command whose joined, lowercased text is one of the blocked
\* commands is ever handed to subprocess.run, in an interactive call or
\* not, and whatever is answered at the prompt.
C36_BlockedNeverRun ==
    \A k \in 1 .. Len(shell_executor.ran) :
        CmdStr(shell_executor.ran[k]) \notin blocked_commands

\* The orchestrator is at future.result of the task with id i, and the
\* step leaves that wait.
Collecting(i) ==
    /\ opc = "collect"
    /\ oi <= Len(tasks)
    /\ tasks[oi].id = i
    /\ oi' = oi + 1
\* The status of the entry under id i becomes s in the step.
Becomes(i, s) ==
    /\ executions'[i].status = s
    /\ executions[i].status # s

\* C37: a TaskExecution whose worker returned a result becomes COMPLETED
\* when the result is collected, also when the result says success =
\* False; no other step makes it COMPLETED, and it becomes FAILED only
\* when future.result raises the worker's exception or the timeout.
C37_StatusFromOutcome ==
    [][\A i \in TaskIds :
          LET f == wfut[<<ncalls, i>>] IN
          /\ (Collecting(i) /\ f.kind = "result")
                => /\ executions'[i].status = COMPLETED
                   /\ executions'[i].result = [success |-> f.success]
          /\ Becomes(i, COMPLETED) => (Collecting(i) /\ f.kind = "result")
          /\ Becomes(i, FAILED)
                => (Collecting(i) /\ f.kind \in {"exception", "unset"})]_vars

\* C37's case: a COMPLETED TaskExecution whose result is success = False.
C37_Witness ==
    \E i \in TaskIds :
        /\ executions[i].status = COMPLETED
        /\ executions[i].result = [success |-> FALSE]

\* Worker w is inside text_injector.type_text.
InDictation(w) == wpc[w] = "act" /\ wpath[w] = "dictation"

\* C38: a task routed to dictation neither waits for the GUI lock nor
\* holds it, so its text injection is not kept apart from another task's
\* GUI action.
C38_DictationTakesNoLock ==
    \A w \in Workers :
        wpath[w] = "dictation" => (wpc[w] # "lockwait" /\ gui_lock # w)

\* C38's case: one task is typing its text while another task, holding
\* the GUI lock, is inside gui_executor.execute.
C38_Witness ==
    \E w, v \in Workers :
        /\ InDictation(w)
        /\ InGui(v) /\ gui_lock = v

\* C39: in every result of execute, retries_used is the number of
\* attempts abandoned before the outcome: the index of the attempt that
\* clicked, fell back to the shortcut or ended with the error (0 for the
\* first attempt, max_retries - 1 for the last), and the count of all
\* attempts when the loop ran out.
C39_RetriesUsedCountsAbandoned ==
    GuiDone => gui_executor.retries_used = gui_executor.attempt

\* ------------------------------------------------ claims on main.py's lock
\* Process p has got True from create_lock and runs as the instance.
Instance(p) == lock_file.at[p] = "running"

\* C40: of the processes that start together on a LOCK_FILE no live
\* process holds, at most one gets True from create_lock, and while an
\* instance runs LOCK_FILE stays the file that holds its pid: no other
\* process removes or overwrites it.
C40_SingleInstance ==
    lock_file.pc = "main" =>
        /\ Cardinality({p \in Instances : Instance(p)}) <= 1
        /\ \A p \in Instances :
              Instance(p) => /\ lock_file.LOCK_FILE # NoFile
                             /\ lock_file.LOCK_FILE.content = <<p>>

=============================================================================
